---- MODULE Spec2Model ----
(***************************************************************************)
(* Cost computation and allocation engine of the EPS pool calculator       *)
(* (EpsPoolCalculator.tsx).  The React component is modelled as a state    *)
(* machine: the useState cells are the variables, every input handler is   *)
(* an action, and the two useMemo results (vesselCalcs, project) are       *)
(* recomputed by every action, as the render that follows a state change   *)
(* does.                                                                   *)
(*                                                                         *)
(* JavaScript numbers are modelled as exact rationals extended with the    *)
(* IEEE special values Infinity and NaN; rounding of the binary            *)
(* floating-point format is not modelled.                                  *)
(*                                                                         *)
(* Two versions of the component are modelled, selected by the variable    *)
(* version: the first one (EPS only) and the latest one (EPS or stainless  *)
(* steel, bench and steps geometry, pass-through costs kept apart from     *)
(* construction costs).  The weight view and the text-only fields of the   *)
(* latest version do not feed the prices modelled here and are left out.   *)
(***************************************************************************)
EXTENDS Integers, Sequences, FiniteSets, TLC

(* ------------------------------ numbers ------------------------------ *)
\* A number is [n, d]: d > 0 is the rational n/d in lowest terms,
\* d = 0 is Infinity (n = 1), -Infinity (n = -1) or NaN (n = 0).
Abs(i) == IF i < 0 THEN -i ELSE i

Sgn(i) == IF i < 0 THEN -1 ELSE IF i = 0 THEN 0 ELSE 1

RECURSIVE GCD(_, _)
GCD(a, b) == IF b = 0 THEN a ELSE GCD(b, a % b)

Norm(n, d) ==
  IF d = 1 THEN [n |-> n, d |-> 1]
  ELSE LET g == GCD(Abs(n), d)
       IN  [n |-> n \div g, d |-> d \div g]

R(i) == [n |-> i, d |-> 1]

Q(a, b) == Norm(a, b)

Inf == [n |-> 1, d |-> 0]

NaN == [n |-> 0, d |-> 0]

SignedInf(s) == [n |-> s, d |-> 0]

IsFinite(x) == x.d > 0

IsNaN(x) == x.d = 0 /\ x.n = 0

IsZero(x) == x.d > 0 /\ x.n = 0

Add(x, y) ==
  IF IsFinite(x) /\ IsFinite(y)
  THEN IF x.d = y.d THEN Norm(x.n + y.n, x.d)
       ELSE LET g == GCD(x.d, y.d)
            IN  Norm(x.n * (y.d \div g) + y.n * (x.d \div g), (x.d \div g) * y.d)
  ELSE IF IsNaN(x) \/ IsNaN(y) THEN NaN
  ELSE IF IsFinite(x) THEN y
  ELSE IF IsFinite(y) THEN x
  ELSE IF x.n = y.n THEN x ELSE NaN

Neg(x) == [n |-> -x.n, d |-> x.d]

Sub(x, y) == Add(x, Neg(y))

Mul(x, y) ==
  IF IsFinite(x) /\ IsFinite(y)
  THEN IF x.d = 1 /\ y.d = 1 THEN [n |-> x.n * y.n, d |-> 1]
       ELSE LET g1 == GCD(Abs(x.n), y.d)
                g2 == GCD(Abs(y.n), x.d)
            IN  [n |-> (x.n \div g1) * (y.n \div g2), d |-> (x.d \div g2) * (y.d \div g1)]
  ELSE IF IsNaN(x) \/ IsNaN(y) THEN NaN
  ELSE IF Sgn(x.n) * Sgn(y.n) = 0 THEN NaN
  ELSE SignedInf(Sgn(x.n) * Sgn(y.n))

Div(x, y) ==
  IF IsNaN(x) \/ IsNaN(y) THEN NaN
  ELSE IF IsFinite(x) /\ IsFinite(y)
  THEN IF y.n = 0
       THEN (IF x.n = 0 THEN NaN ELSE SignedInf(Sgn(x.n)))
       ELSE Mul(x, [n |-> Sgn(y.n) * y.d, d |-> Abs(y.n)])
  ELSE IF IsFinite(x) THEN R(0)
  ELSE IF IsFinite(y) THEN SignedInf(IF y.n < 0 THEN -x.n ELSE x.n)
  ELSE NaN

\* x < y as JavaScript evaluates it (false when either side is NaN)
Lt(x, y) ==
  IF IsNaN(x) \/ IsNaN(y) THEN FALSE
  ELSE IF IsFinite(x) /\ IsFinite(y) THEN x.n * y.d < y.n * x.d
  ELSE IF IsFinite(x) THEN y.n > 0
  ELSE IF IsFinite(y) THEN x.n < 0
  ELSE x.n < y.n

Gt(x, y) == Lt(y, x)

Le(x, y) == ~IsNaN(x) /\ ~IsNaN(y) /\ ~Lt(y, x)

\* x || alt : JavaScript takes alt when x is 0 or NaN
OrElse(x, alt) == IF IsZero(x) \/ IsNaN(x) THEN alt ELSE x

MaxN(x, y) == IF IsNaN(x) \/ IsNaN(y) THEN NaN ELSE IF Lt(x, y) THEN y ELSE x

clampN(x) == IF IsFinite(x) THEN MaxN(R(0), x) ELSE R(0)

\* mutant of SumSeq: the fold starts at the second element
RECURSIVE SumSeqSkipFirst(_)
SumSeqSkipFirst(s) ==
  IF Len(s) <= 1 THEN R(0)
  ELSE Add(SumSeqSkipFirst(SubSeq(s, 1, Len(s) - 1)), s[Len(s)])

\* array.reduce((s, n) => s + n, 0)
RECURSIVE SumSeq(_)
SumSeq(s) == IF s = <<>> THEN R(0) ELSE Add(SumSeq(SubSeq(s, 1, Len(s) - 1)), s[Len(s)])

\* Math.ceil
Ceil(x) == IF IsFinite(x) THEN R(-((-x.n) \div x.d)) ELSE x

\* Math.round (halves round up)
Round(x) == IF IsFinite(x) THEN R((2 * x.n + x.d) \div (2 * x.d)) ELSE x

Min(S) == CHOOSE x \in S : \A y \in S : x <= y

Range(s) == {s[i] : i \in 1..Len(s)}

(* ------------------------------ types -------------------------------- *)
\* The source holds two versions of the component; a run is of one of them.
Versions == {"first", "latest"}

VesselTypes == {"Cold Plunge", "Hot Tub"}

ConstructionTypes == {"EPS", "Stainless Steel"}

ScopeNames == {"scopeMaterials", "scopeLabor", "scopeEquipment", "scopeFreight",
               "scopeDesignEng", "scopeDesignCont", "scopeWarranty"}

OptNames == {"includeRigging", "useProjectChemicalStorage"}

PctNames == {"designContPct", "warrantyPctOfClient", "ohpPct", "wastePct"}

RateNames == {"epsBundlePerSf", "tileMaterialsPerSf", "ffeMaterialsPerVessel",
              "epsWpLaborPerSf", "tileLaborPerSf", "ffeLaborPerVessel",
              "equipPlumbPerVessel", "handrailInstallPerEa", "refrigLinePerCP",
              "startupLump", "repOnsiteFee", "riggingPerVessel", "regionMult",
              "miles", "dollarsPerMile", "handlingPerVessel",
              "designBase", "designMult", "projectChemicalStorageCost"} \cup PctNames

\* stainless steel and ADA frame rates (latest version)
SsMaterialRates == {"ss304LPricePerLb", "ss316LPricePerFt", "plateThickness",
                    "bitumasticCoatingPerSf", "sacrificialAnodePerVessel"}

SsLaborRates == {"tigWelderRatePerHr", "welderLoadedMult", "weldingTimePerLf",
                 "grindingTimePerLf", "polishingTimePerLf", "passivationPerSf",
                 "leakTestPerVessel", "qualityCertPerVessel"}

AdaRates == {"steelTubingPricePerFt", "steelFabricationPerFt"}

OptNamesOf(ver) == IF ver = "first" THEN OptNames ELSE OptNames \cup {"includeAdaFrame"}

RateNamesOf(ver) ==
  IF ver = "first" THEN RateNames
  ELSE RateNames \cup SsMaterialRates \cup SsLaborRates \cup AdaRates

VARIABLES version, constructionType, scope, opts, rate, packages, vessels, edits,
          calcs, proj, renderError,
          benches, steps, viewMode, dragging, selectedElement,
          quickAdd, budget

\* the useState cells of the VesselVisualization of one vessel card
vizVars == <<benches, steps, viewMode, dragging, selectedElement>>

\* quickAdd holds the useState cells of the quick-add dialog (showQuickAdd,
\* quickAddType, quickAddBathers, ...) as the fields show, type, bathers,
\* length, width, depth and name; budget is the number of handler
\* invocations a run of the calculator may take
vars == <<version, constructionType, scope, opts, rate, packages, vessels, edits,
          calcs, proj, renderError, vizVars, quickAdd, budget>>

(* ----------------- per-vessel calculations (first version) ------------ *)
\* mutant of findPkg: the package is found by key alone
findPkgByKey(pk, v) ==
  LET hits == {i \in 1..Len(pk) : pk[i].key = v.equipmentPackageKey}
  IN  IF hits = {} THEN <<>> ELSE <<pk[Min(hits)]>>

\* packages.find(p => p.key === v.equipmentPackageKey && p.appliesTo.includes(v.type))
findPkg(pk, v) ==
  LET hits == {i \in 1..Len(pk) :
                 pk[i].key = v.equipmentPackageKey /\ v.type \in pk[i].appliesTo}
  IN  IF hits = {} THEN <<>> ELSE <<pk[Min(hits)]>>

\* pkg.items.reduce((s, it) => s + clampN(it.cost), 0)
pkgCost(p) == SumSeq([i \in 1..Len(p.items) |-> clampN(p.items[i].cost)])

equipmentSubtotal(sc, pk, v) ==
  LET pkg == findPkg(pk, v)
  IN  IF sc.scopeEquipment /\ pkg # <<>> THEN pkgCost(pkg[1]) ELSE R(0)

laborSubtotal(sc, rt, v, finishSf, floorSf, wallSf) ==
  IF sc.scopeLabor
  THEN LET l1 == Mul(clampN(rt.epsWpLaborPerSf), finishSf)
           l2 == Add(l1, Mul(clampN(rt.tileLaborPerSf), Add(floorSf, wallSf)))
           l3 == Add(l2, clampN(rt.ffeLaborPerVessel))
           interconnect == IF v.type = "Hot Tub"
                           THEN Mul(clampN(rt.equipPlumbPerVessel), Q(3, 2))
                           ELSE clampN(rt.equipPlumbPerVessel)
           l4 == Add(l3, interconnect)
           l5 == Add(l4, Mul(clampN(rt.handrailInstallPerEa), clampN(v.handrails)))
           l6 == IF v.type = "Cold Plunge" /\ v.refrigerationLine
                 THEN Add(l5, clampN(rt.refrigLinePerCP)) ELSE l5
           l7 == IF v.type = "Hot Tub" /\ Gt(v.jets, R(6))
                 THEN Add(l6, Mul(Sub(v.jets, R(6)), R(100))) ELSE l6
       IN  Mul(l7, clampN(rt.regionMult))
  ELSE R(0)

vesselCalc(sc, rt, pk, v) ==
  LET L == clampN(v.length_ft)
      W == clampN(v.width_ft)
      D == clampN(v.waterDepth_ft)
      floorSf == Mul(L, W)
      wallSf == Mul(Mul(R(2), Add(L, W)), D)
      benchSf == clampN(v.benchSf)
      extraSf == clampN(v.extraSf)
      finishSf == Add(Add(Add(floorSf, wallSf), benchSf), extraSf)
      materialsEpsBundle == IF sc.scopeMaterials
                            THEN Mul(clampN(rt.epsBundlePerSf), finishSf) ELSE R(0)
      materialsTile == IF sc.scopeMaterials
                       THEN Mul(clampN(rt.tileMaterialsPerSf), Add(floorSf, wallSf)) ELSE R(0)
      materialsFfe == IF sc.scopeMaterials THEN clampN(rt.ffeMaterialsPerVessel) ELSE R(0)
      equip == equipmentSubtotal(sc, pk, v)
      labor == laborSubtotal(sc, rt, v, finishSf, floorSf, wallSf)
      materialsSubtotal == Add(Add(materialsEpsBundle, materialsTile), materialsFfe)
  IN  [vessel |-> v,
       areas |-> [floorSf |-> floorSf, wallSf |-> wallSf, benchSf |-> benchSf,
                  extraSf |-> extraSf, finishSf |-> finishSf],
       materials |-> [materialsEpsBundle |-> materialsEpsBundle,
                      materialsTile |-> materialsTile, materialsFfe |-> materialsFfe],
       equipmentSubtotal |-> equip,
       laborSubtotal |-> labor,
       perVesselDirect |-> Add(Add(materialsSubtotal, equip), labor)]

vesselCalcs(sc, rt, pk, vs) == [i \in 1..Len(vs) |-> vesselCalc(sc, rt, pk, vs[i])]

(* -------------------- project roll-up (first version) ----------------- *)
\* mutant of freightTotal: the regional multiplier is left out
freightTotalUnscaled(sc, rt, n) ==
  IF sc.scopeFreight
  THEN Add(Mul(clampN(rt.miles), clampN(rt.dollarsPerMile)),
           Mul(R(n), clampN(rt.handlingPerVessel)))
  ELSE R(0)

freightTotal(sc, rt, n) ==
  IF sc.scopeFreight
  THEN Mul(Add(Mul(clampN(rt.miles), clampN(rt.dollarsPerMile)),
               Mul(R(n), clampN(rt.handlingPerVessel))),
           clampN(rt.regionMult))
  ELSE R(0)

designEngineering(sc, rt) ==
  IF sc.scopeDesignEng THEN Mul(clampN(rt.designBase), clampN(rt.designMult)) ELSE R(0)

\* mutant of repFee: the fee is charged whatever the Labor scope
repFeeUngated(sc, rt) == clampN(rt.repOnsiteFee)

repFee(sc, rt) == IF sc.scopeLabor THEN clampN(rt.repOnsiteFee) ELSE R(0)

startup(sc, rt) == IF sc.scopeLabor THEN clampN(rt.startupLump) ELSE R(0)

chemStorage(sc, op, rt) ==
  IF sc.scopeEquipment /\ op.useProjectChemicalStorage
  THEN clampN(rt.projectChemicalStorageCost) ELSE R(0)

\* mutant of rigging: the per-vessel charge is taken once for the project
riggingOnce(sc, op, rt, n) ==
  IF sc.scopeLabor /\ op.includeRigging THEN clampN(rt.riggingPerVessel) ELSE R(0)

rigging(sc, op, rt, n) ==
  IF sc.scopeLabor /\ op.includeRigging THEN Mul(clampN(rt.riggingPerVessel), R(n)) ELSE R(0)

\* const wRate = scopeWarranty ? clampN(warrantyPctOfClient) / 100 : 0
warrantyRate(sc, rt) ==
  IF sc.scopeWarranty THEN Div(clampN(rt.warrantyPctOfClient), R(100)) ELSE R(0)

\* mutant of clientTotal: the warranty share is taken off instead of grossed up
clientTotalDiscounted(n, wRate) == IF Lt(wRate, R(1)) THEN Mul(n, Sub(R(1), wRate)) ELSE Inf

\* mutant of clientTotal: the warranty is added as a share of the pre-warranty total
clientTotalSurcharged(n, wRate) == IF Lt(wRate, R(1)) THEN Mul(n, Add(R(1), wRate)) ELSE Inf

\* preWarranty.map(n => (wRate < 1 ? n / (1 - wRate) : Infinity))
clientTotal(n, wRate) == IF Lt(wRate, R(1)) THEN Div(n, Sub(R(1), wRate)) ELSE Inf

\* mutant of warrantyOf: the warranty is a share of the pre-warranty total
warrantyOfPreWarranty(sc, n, wRate) ==
  IF sc.scopeWarranty THEN Mul(Mul(n, Sub(R(1), wRate)), wRate) ELSE R(0)

\* perVesselClient.map(n => (scopeWarranty ? n * wRate : 0))
warrantyOf(sc, n, wRate) == IF sc.scopeWarranty THEN Mul(n, wRate) ELSE R(0)

\* vesselCalcs.reduce((s, c) => s + c.perVesselDirect, 0) || 1
sumPreAllocBase(vc) == OrElse(SumSeq([i \in 1..Len(vc) |-> vc[i].perVesselDirect]), R(1))

\* the six project-level softs, each computed once per render
softs(sc, op, rt, n) ==
  [freightTotal |-> freightTotal(sc, rt, n),
   designEngineering |-> designEngineering(sc, rt),
   repFee |-> repFee(sc, rt),
   startup |-> startup(sc, rt),
   chemStorage |-> chemStorage(sc, op, rt),
   rigging |-> rigging(sc, op, rt, n)]

\* mutant of contRate: the rate is charged whatever the Design Contingency flag says
contRateUngated(sc, rt) == Div(clampN(rt.designContPct), R(100))

contRate(sc, rt) == IF sc.scopeDesignCont THEN Div(clampN(rt.designContPct), R(100)) ELSE R(0)

wasteRate(rt) == Div(clampN(rt.wastePct), R(100))

ohpRate(rt) == Div(clampN(rt.ohpPct), R(100))

\* the four markup rates, each computed once per render
markupRates(sc, rt) ==
  [contRate |-> contRate(sc, rt), wasteRate |-> wasteRate(rt),
   ohpRate |-> ohpRate(rt), wRate |-> warrantyRate(sc, rt)]

\* freightTotal + designEngineering + repFee + startup + chemStorage + rigging
softsTotal(sf) ==
  Add(Add(Add(Add(Add(sf.freightTotal, sf.designEngineering), sf.repFee),
              sf.startup), sf.chemStorage), sf.rigging)

\* mutant of perVesselPreContBase: the first vessel of the list carries the
\* whole pool
perVesselPreContBaseFirstCarries(vc, base, pool) ==
  [i \in 1..Len(vc) |-> Add(vc[i].perVesselDirect, IF i = 1 THEN pool ELSE R(0))]

\* allocShares[i] and perVesselPreContBase[i]; base = sumPreAllocBase, pool = the softs total
perVesselPreContBase(vc, base, pool) ==
  [i \in 1..Len(vc) |->
     Add(vc[i].perVesselDirect, Mul(Div(vc[i].perVesselDirect, base), pool))]

\* mutant of contShare: the divisor is not guarded against 0
contShareUnguarded(b, baseBeforeCont, designContAmount) ==
  Mul(Div(b, baseBeforeCont), designContAmount)

\* perVesselPreContBase.map(b => (b / (baseBeforeCont || 1)) * designContAmount)
contShare(b, baseBeforeCont, designContAmount) ==
  Mul(Div(b, OrElse(baseBeforeCont, R(1))), designContAmount)

\* designContAmount and perVesselCont, from baseBeforeCont = the sum of pre
contingency(mr, pre, baseBeforeCont) ==
  [designContAmount |-> Mul(baseBeforeCont, mr.contRate),
   perVesselCont |->
     [i \in 1..Len(pre) |-> contShare(pre[i], baseBeforeCont, Mul(baseBeforeCont, mr.contRate))]]

designCont(mr, pre) == contingency(mr, pre, SumSeq(pre))

\* The useMemo callback contains no throw statement: it always returns.
projectThrows(sc, rt) == FALSE

\* the markup columns of one row from b = perVesselBasePlusCont[i], its waste
\* and OH&P, and pass = the pass-through share added before warranty (0 in
\* the first version)
rowMarkups(sc, mr, b, waste, ohp, client) ==
  [waste |-> waste, ohp |-> ohp,
   warranty |-> warrantyOf(sc, client, mr.wRate),
   clientTotal |-> client]

\* mutant of markupsOf: the pass-through costs carry waste and OH&P too
markupsOfMarkedUpPassThrough(sc, mr, b, waste, ohp, pass) ==
  rowMarkups(sc, mr, b, waste, ohp,
             clientTotal(Add(Add(Add(b, waste), ohp),
                             Mul(pass, Add(Add(R(1), mr.wasteRate), mr.ohpRate))),
                         mr.wRate))

markupsOf(sc, mr, b, waste, ohp, pass) ==
  rowMarkups(sc, mr, b, waste, ohp, clientTotal(Add(Add(Add(b, waste), ohp), pass), mr.wRate))

\* mutant of markups: OH&P is charged on the base after waste
markupsCompounded(sc, mr, b, pass) ==
  markupsOf(sc, mr, b, Mul(b, mr.wasteRate), Mul(Add(b, Mul(b, mr.wasteRate)), mr.ohpRate), pass)

\* waste, ohp, warranty and clientTotal of one vessel
markups(sc, mr, b, pass) == markupsOf(sc, mr, b, Mul(b, mr.wasteRate), Mul(b, mr.ohpRate), pass)

\* one entry of perVesselRows: pre = perVesselPreContBase[i], cont = perVesselCont[i]
perVesselRowOf(c, pre, cont, m) ==
  [id |-> c.vessel.id,
   name |-> c.vessel.name,
   type |-> c.vessel.type,
   finishSf |-> c.areas.finishSf,
   preContBase |-> pre,
   designCont |-> cont,
   waste |-> m.waste,
   ohp |-> m.ohp,
   warranty |-> m.warranty,
   clientTotal |-> m.clientTotal]

perVesselRows(sc, mr, vc, pre, cont) ==
  [i \in 1..Len(vc) |->
     perVesselRowOf(vc[i], pre[i], cont[i], markups(sc, mr, Add(pre[i], cont[i]), R(0)))]

grossMarginPct(profit, clientPrice) ==
  IF Gt(clientPrice, R(0)) THEN Mul(Div(profit, clientPrice), R(100)) ELSE R(0)

effectivePerSf(clientPrice, finishSfTotal) ==
  IF Gt(finishSfTotal, R(0)) THEN Div(clientPrice, finishSfTotal) ELSE R(0)

\* the rollups that depend on other rollups
derived(ohpAmount, clientPrice, finishSfTotal) ==
  [finishSfTotal |-> finishSfTotal,
   ohpAmount |-> ohpAmount,
   clientPrice |-> clientPrice,
   profit |-> ohpAmount,
   grossMarginPct |-> grossMarginPct(ohpAmount, clientPrice),
   effectivePerSf |-> effectivePerSf(clientPrice, finishSfTotal)]

\* the object returned by the project useMemo
result(sf, vc, cont, rows, dv) ==
  [finishSfTotal |-> dv.finishSfTotal,
   materialsTotal |->
     SumSeq([i \in 1..Len(vc) |-> Add(Add(vc[i].materials.materialsEpsBundle,
                                          vc[i].materials.materialsTile),
                                      vc[i].materials.materialsFfe)]),
   equipmentSubtotalVessels |-> SumSeq([i \in 1..Len(vc) |-> vc[i].equipmentSubtotal]),
   laborSubtotal |-> SumSeq([i \in 1..Len(vc) |-> vc[i].laborSubtotal]),
   freightTotal |-> sf.freightTotal,
   designEngineering |-> sf.designEngineering,
   repFee |-> sf.repFee,
   startup |-> sf.startup,
   chemStorage |-> sf.chemStorage,
   rigging |-> sf.rigging,
   designContAmount |-> cont.designContAmount,
   hardCostsBase |-> SumSeq([i \in 1..Len(rows) |-> Add(rows[i].preContBase, rows[i].designCont)]),
   wasteAmount |-> SumSeq([i \in 1..Len(rows) |-> rows[i].waste]),
   ohpAmount |-> dv.ohpAmount,
   warrantyReserve |-> SumSeq([i \in 1..Len(rows) |-> rows[i].warranty]),
   clientPrice |-> dv.clientPrice,
   profit |-> dv.profit,
   grossMarginPct |-> dv.grossMarginPct,
   effectivePerSf |-> dv.effectivePerSf,
   perVesselRows |-> rows]

rollup(sf, vc, cont, rows) ==
  result(sf, vc, cont, rows,
         derived(SumSeq([i \in 1..Len(rows) |-> rows[i].ohp]),
                 SumSeq([i \in 1..Len(rows) |-> rows[i].clientTotal]),
                 SumSeq([i \in 1..Len(vc) |-> vc[i].areas.finishSf])))

markup(sc, mr, sf, vc, pre, cont) ==
  rollup(sf, vc, cont, perVesselRows(sc, mr, vc, pre, cont.perVesselCont))

allocate(sc, mr, sf, vc, pre) == markup(sc, mr, sf, vc, pre, designCont(mr, pre))

projectFrom(sc, mr, sf, vc) ==
  allocate(sc, mr, sf, vc, perVesselPreContBase(vc, sumPreAllocBase(vc), softsTotal(sf)))

project(sc, op, rt, vs, vc) ==
  projectFrom(sc, markupRates(sc, rt), softs(sc, op, rt, Len(vs)), vc)

(* ---------------- per-vessel calculations (latest version) ------------ *)
\* bench surface: top + front + two sides
benchSurface(v) ==
  IF v.hasBench
  THEN LET bL == clampN(v.benchLength_ft)
           bD == clampN(v.benchDepth_ft)
           bH == clampN(v.benchHeight_ft)
       IN  Add(Add(Mul(bL, bD), Mul(bL, bH)), Mul(R(2), Mul(bD, bH)))
  ELSE R(0)

\* mutant of stepsSurface: the steps are counted whether enabled or not
stepsSurfaceAlways(v) ==
  LET sW == clampN(v.stepsWidth_ft)
      sN == MaxN(R(1), Round(clampN(v.stepsCount)))
      sH == clampN(v.stepRiser_ft)
      sD == clampN(v.stepTread_ft)
  IN  Add(Add(Mul(Mul(sW, sD), sN), Mul(Mul(sW, sH), sN)),
          Mul(R(2), Mul(Div(Mul(sN, sH), R(2)), Mul(sN, sD))))

\* steps surface: treads + risers + two side faces
stepsSurface(v) ==
  IF v.hasSteps
  THEN LET sW == clampN(v.stepsWidth_ft)
           sN == MaxN(R(1), Round(clampN(v.stepsCount)))
           sH == clampN(v.stepRiser_ft)
           sD == clampN(v.stepTread_ft)
       IN  Add(Add(Mul(Mul(sW, sD), sN), Mul(Mul(sW, sH), sN)),
               Mul(R(2), Mul(Div(Mul(sN, sH), R(2)), Mul(sN, sD))))
  ELSE R(0)

areasLatest(v) ==
  LET L == clampN(v.length_ft)
      W == clampN(v.width_ft)
      D == clampN(v.waterDepth_ft)
      floorSf == Mul(L, W)
      wallSf == Mul(Mul(R(2), Add(L, W)), D)
      benchSf == Add(benchSurface(v), stepsSurface(v))
  IN  [floorSf |-> floorSf, wallSf |-> wallSf, benchSf |-> benchSf,
       finishSf |-> Add(Add(floorSf, wallSf), benchSf)]

\* ADA transfer wall / steel frame (stainless steel only)
adaFrame(sc, op, rt, ct, v) ==
  IF ct = "Stainless Steel" /\ op.includeAdaFrame /\ sc.scopeMaterials
  THEN LET perimeterFt == Mul(R(2), Add(clampN(v.length_ft), clampN(v.width_ft)))
           numStuds == Ceil(Div(perimeterFt, Div(R(16), R(12))))
           totalSteelLf == Add(Mul(numStuds, clampN(v.waterDepth_ft)), Mul(perimeterFt, R(2)))
       IN  Add(Mul(totalSteelLf, clampN(rt.steelTubingPricePerFt)),
               Mul(totalSteelLf, clampN(rt.steelFabricationPerFt)))
  ELSE R(0)

\* the materials object of one vessel; ar = areas, ada = adaFrameCost
materialsLatest(sc, rt, ct, v, ar, ada) ==
  IF ct = "EPS"
  THEN [materialsEpsBundle |-> IF sc.scopeMaterials
                               THEN Mul(clampN(rt.epsBundlePerSf), ar.finishSf) ELSE R(0),
        materialsTile |-> IF sc.scopeMaterials
                          THEN Mul(clampN(rt.tileMaterialsPerSf), Add(ar.floorSf, ar.wallSf))
                          ELSE R(0),
        materialsFfe |-> IF sc.scopeMaterials THEN clampN(rt.ffeMaterialsPerVessel) ELSE R(0),
        adaFrameCost |-> ada]
  ELSE IF sc.scopeMaterials
  THEN [materialsStainless |->
          Mul(Mul(ar.finishSf, Mul(Mul(clampN(rt.plateThickness), R(12)), Q(204, 5))),
              clampN(rt.ss304LPricePerLb)),
        coatingCost |-> Mul(ar.finishSf, clampN(rt.bitumasticCoatingPerSf)),
        anodeCost |-> clampN(rt.sacrificialAnodePerVessel),
        materialsTile |-> Mul(clampN(rt.tileMaterialsPerSf), Add(ar.floorSf, ar.wallSf)),
        materialsFfe |-> Mul(Mul(clampN(v.handrails), R(8)), clampN(rt.ss316LPricePerFt)),
        adaFrameCost |-> ada]
  ELSE [materialsStainless |-> R(0), coatingCost |-> R(0), anodeCost |-> R(0),
        materialsTile |-> R(0), materialsFfe |-> R(0), adaFrameCost |-> ada]

materialsSubtotal(ct, m) ==
  IF ct = "EPS"
  THEN Add(Add(Add(m.materialsEpsBundle, m.materialsTile), m.materialsFfe), m.adaFrameCost)
  ELSE Add(Add(Add(Add(Add(m.materialsStainless, m.coatingCost), m.anodeCost),
                   m.materialsTile), m.materialsFfe), m.adaFrameCost)

interconnect(rt, v) ==
  IF v.type = "Hot Tub" THEN Mul(clampN(rt.equipPlumbPerVessel), Q(3, 2))
  ELSE clampN(rt.equipPlumbPerVessel)

\* mutant of vesselLabor: the refrigeration line is charged to every cold
\* plunge and every jet of a hot tub is charged, without a baseline
vesselLaborUnconditional(rt, v, ar) ==
  LET l1 == Mul(clampN(rt.epsWpLaborPerSf), ar.finishSf)
      l2 == Add(l1, Mul(clampN(rt.tileLaborPerSf), Add(ar.floorSf, ar.wallSf)))
      l3 == Add(l2, clampN(rt.ffeLaborPerVessel))
      l4 == Add(l3, Mul(clampN(rt.handrailInstallPerEa), clampN(v.handrails)))
      l5 == IF v.type = "Cold Plunge" THEN Add(l4, clampN(rt.refrigLinePerCP)) ELSE l4
  IN  IF v.type = "Hot Tub" THEN Add(l5, Mul(clampN(v.jets), R(100))) ELSE l5

\* EPS vessel install labor before the regional multiplier
vesselLabor(rt, v, ar) ==
  LET l1 == Mul(clampN(rt.epsWpLaborPerSf), ar.finishSf)
      l2 == Add(l1, Mul(clampN(rt.tileLaborPerSf), Add(ar.floorSf, ar.wallSf)))
      l3 == Add(l2, clampN(rt.ffeLaborPerVessel))
      l4 == Add(l3, Mul(clampN(rt.handrailInstallPerEa), clampN(v.handrails)))
      l5 == IF v.type = "Cold Plunge" /\ v.refrigerationLine
            THEN Add(l4, clampN(rt.refrigLinePerCP)) ELSE l4
  IN  IF v.type = "Hot Tub" /\ Gt(v.jets, R(6))
      THEN Add(l5, Mul(Sub(v.jets, R(6)), R(100))) ELSE l5

totalWeldLf(v) ==
  LET L == clampN(v.length_ft)
      W == clampN(v.width_ft)
      D == clampN(v.waterDepth_ft)
  IN  Add(Add(Add(Mul(R(2), Add(L, W)), Mul(R(4), D)),
              Mul(Ceil(Div(L, R(4))), W)),
          Mul(Ceil(Div(Add(Mul(R(2), L), Mul(R(2), W)), R(4))), D))

\* stainless steel fabrication labor: welding + grinding + polishing + passivation
fabricationLabor(rt, v, ar) ==
  LET loadedWelderRate == Mul(clampN(rt.tigWelderRatePerHr), clampN(rt.welderLoadedMult))
      weldingCost == Mul(Mul(totalWeldLf(v), clampN(rt.weldingTimePerLf)), loadedWelderRate)
      grindingCost == Mul(Mul(Mul(totalWeldLf(v), clampN(rt.grindingTimePerLf)), loadedWelderRate),
                          Q(17, 20))
      polishingCost == Mul(Mul(Mul(clampN(v.handrails), R(8)), clampN(rt.polishingTimePerLf)),
                           loadedWelderRate)
      passivationCost == Mul(ar.finishSf, clampN(rt.passivationPerSf))
  IN  Add(Add(Add(weldingCost, grindingCost), polishingCost), passivationCost)

\* stainless steel labor figures of one vessel; fab = fabricationLabor
laborStainless(rt, v, ar, fab) ==
  [vesselInstallLabor |-> Add(fab, Mul(clampN(rt.tileLaborPerSf), Add(ar.floorSf, ar.wallSf))),
   equipmentInterconnectLabor |-> interconnect(rt, v),
   fabricationLabor |-> fab,
   qualityControlCost |-> Add(clampN(rt.leakTestPerVessel), clampN(rt.qualityCertPerVessel))]

\* the four labor figures of one vessel
laborLatest(sc, rt, ct, v, ar) ==
  IF ~sc.scopeLabor
  THEN [vesselInstallLabor |-> R(0), equipmentInterconnectLabor |-> R(0),
        fabricationLabor |-> R(0), qualityControlCost |-> R(0)]
  ELSE IF ct = "EPS"
  THEN [vesselInstallLabor |-> Mul(vesselLabor(rt, v, ar), clampN(rt.regionMult)),
        equipmentInterconnectLabor |-> Mul(interconnect(rt, v), clampN(rt.regionMult)),
        fabricationLabor |-> R(0), qualityControlCost |-> R(0)]
  ELSE laborStainless(rt, v, ar, fabricationLabor(rt, v, ar))

\* the object returned for one vessel; m = materials, eq = equipmentSubtotal, lb = labor figures
vesselResult(ct, v, ar, m, eq, lb) ==
  [vessel |-> v,
   areas |-> ar,
   materials |-> m,
   equipmentSubtotal |-> eq,
   laborSubtotal |-> Add(lb.vesselInstallLabor, lb.equipmentInterconnectLabor),
   vesselInstallLabor |-> lb.vesselInstallLabor,
   equipmentInterconnectLabor |-> lb.equipmentInterconnectLabor,
   fabricationLabor |-> lb.fabricationLabor,
   qualityControlCost |-> lb.qualityControlCost,
   adaFrameCost |-> m.adaFrameCost,
   perVesselDirect |->
     Add(Add(Add(materialsSubtotal(ct, m), eq),
             Add(lb.vesselInstallLabor, lb.equipmentInterconnectLabor)),
         lb.qualityControlCost)]

vesselCalcAt(sc, op, rt, ct, pk, v, ar) ==
  vesselResult(ct, v, ar, materialsLatest(sc, rt, ct, v, ar, adaFrame(sc, op, rt, ct, v)),
               equipmentSubtotal(sc, pk, v), laborLatest(sc, rt, ct, v, ar))

vesselCalcLatest(sc, op, rt, ct, pk, v) == vesselCalcAt(sc, op, rt, ct, pk, v, areasLatest(v))

vesselCalcsLatest(sc, op, rt, ct, pk, vs) ==
  [i \in 1..Len(vs) |-> vesselCalcLatest(sc, op, rt, ct, pk, vs[i])]

(* -------------------- project roll-up (latest version) ---------------- *)
\* materialsTotal: the reduce adds (mats.adaFrameCost || 0) last
materialsTotalLatest(ct, vc) ==
  SumSeq([i \in 1..Len(vc) |->
            IF ct = "EPS"
            THEN Add(Add(Add(vc[i].materials.materialsEpsBundle, vc[i].materials.materialsTile),
                         vc[i].materials.materialsFfe),
                     OrElse(vc[i].materials.adaFrameCost, R(0)))
            ELSE Add(Add(Add(Add(Add(vc[i].materials.materialsStainless,
                                     vc[i].materials.coatingCost),
                                 vc[i].materials.anodeCost),
                             vc[i].materials.materialsTile),
                         vc[i].materials.materialsFfe),
                     OrElse(vc[i].materials.adaFrameCost, R(0)))])

\* allocShares = vesselCalcs.map(c => c.perVesselDirect / sumPreAllocBase)
allocShares(vc, base) == [i \in 1..Len(vc) |-> Div(vc[i].perVesselDirect, base)]

\* construction costs: direct costs plus a share of pool = startup + chemStorage
perVesselConstruction(vc, shares, pool) ==
  [i \in 1..Len(vc) |-> Add(vc[i].perVesselDirect, Mul(shares[i], pool))]

\* pass-through costs: a share of pool = freightTotal + rigging + designEngineering + repFee
perVesselPassThrough(shares, pool) == [i \in 1..Len(shares) |-> Mul(shares[i], pool)]

passThroughPool(sf) == Add(Add(Add(sf.freightTotal, sf.rigging), sf.designEngineering), sf.repFee)

\* one entry of perVesselRows: con = perVesselConstruction[i],
\* pass = perVesselPassThrough[i], cont = perVesselCont[i]
perVesselRowLatestOf(c, con, pass, cont, m) ==
  [id |-> c.vessel.id,
   name |-> c.vessel.name,
   type |-> c.vessel.type,
   finishSf |-> c.areas.finishSf,
   construction |-> con,
   passThrough |-> pass,
   preContBase |-> Add(con, pass),
   designCont |-> cont,
   waste |-> m.waste,
   ohp |-> m.ohp,
   warranty |-> m.warranty,
   clientTotal |-> m.clientTotal]

perVesselRowsLatest(sc, mr, vc, con, pass, cont) ==
  [i \in 1..Len(vc) |->
     perVesselRowLatestOf(vc[i], con[i], pass[i], cont[i],
                          markups(sc, mr, Add(con[i], cont[i]), pass[i]))]

\* the object returned by the project useMemo (cost rollups and allocation table)
resultLatest(ct, sf, vc, cont, rows, dv) ==
  [finishSfTotal |-> dv.finishSfTotal,
   materialsTotal |-> materialsTotalLatest(ct, vc),
   equipmentSubtotalVessels |-> SumSeq([i \in 1..Len(vc) |-> vc[i].equipmentSubtotal]),
   laborSubtotal |-> SumSeq([i \in 1..Len(vc) |-> vc[i].laborSubtotal]),
   freightTotal |-> sf.freightTotal,
   designEngineering |-> sf.designEngineering,
   repFee |-> sf.repFee,
   startup |-> sf.startup,
   chemStorage |-> sf.chemStorage,
   rigging |-> sf.rigging,
   designContAmount |-> cont.designContAmount,
   constructionBase |->
     SumSeq([i \in 1..Len(rows) |-> Add(rows[i].construction, rows[i].designCont)]),
   passThroughTotal |-> SumSeq([i \in 1..Len(rows) |-> rows[i].passThrough]),
   wasteAmount |-> SumSeq([i \in 1..Len(rows) |-> rows[i].waste]),
   ohpAmount |-> dv.ohpAmount,
   warrantyReserve |-> SumSeq([i \in 1..Len(rows) |-> rows[i].warranty]),
   clientPrice |-> dv.clientPrice,
   profit |-> dv.profit,
   grossMarginPct |-> dv.grossMarginPct,
   effectivePerSf |-> dv.effectivePerSf,
   perVesselRows |-> rows]

rollupLatest(ct, sf, vc, cont, rows) ==
  resultLatest(ct, sf, vc, cont, rows,
               derived(SumSeq([i \in 1..Len(rows) |-> rows[i].ohp]),
                       SumSeq([i \in 1..Len(rows) |-> rows[i].clientTotal]),
                       SumSeq([i \in 1..Len(vc) |-> vc[i].areas.finishSf])))

markupLatest(sc, mr, ct, sf, vc, con, pass, cont) ==
  rollupLatest(ct, sf, vc, cont, perVesselRowsLatest(sc, mr, vc, con, pass, cont.perVesselCont))

allocateLatest(sc, mr, ct, sf, vc, shares) ==
  markupLatest(sc, mr, ct, sf, vc,
               perVesselConstruction(vc, shares, Add(sf.startup, sf.chemStorage)),
               perVesselPassThrough(shares, passThroughPool(sf)),
               designCont(mr, perVesselConstruction(vc, shares, Add(sf.startup, sf.chemStorage))))

projectLatestFrom(sc, mr, ct, sf, vc) ==
  allocateLatest(sc, mr, ct, sf, vc, allocShares(vc, sumPreAllocBase(vc)))

projectLatest(sc, op, rt, ct, vs, vc) ==
  projectLatestFrom(sc, markupRates(sc, rt), ct, softs(sc, op, rt, Len(vs)), vc)

(* ---------------------- scope breakdown (latest version) -------------- *)
\* (x || 0) summed over the vessel results
sumOrZero(vc, f) == SumSeq([i \in 1..Len(vc) |-> OrElse(vc[i][f], R(0))])

\* mutant of baseCosts: rigging is left out of freight and handling
baseCostsWithoutRigging(vc, p) ==
  [vesselMaterials |-> Add(p.materialsTotal, sumOrZero(vc, "qualityControlCost")),
   vesselInstall |-> sumOrZero(vc, "vesselInstallLabor"),
   equipment |-> Add(p.equipmentSubtotalVessels, p.chemStorage),
   equipmentInstall |-> Add(sumOrZero(vc, "equipmentInterconnectLabor"), p.startup),
   freightHandling |-> p.freightTotal,
   designEngineering |-> Add(p.designEngineering, p.repFee)]

\* the base costs of the subcategories, before markups; p is the project
baseCosts(vc, p) ==
  [vesselMaterials |-> Add(p.materialsTotal, sumOrZero(vc, "qualityControlCost")),
   vesselInstall |-> sumOrZero(vc, "vesselInstallLabor"),
   equipment |-> Add(p.equipmentSubtotalVessels, p.chemStorage),
   equipmentInstall |-> Add(sumOrZero(vc, "equipmentInterconnectLabor"), p.startup),
   freightHandling |-> Add(p.freightTotal, p.rigging),
   designEngineering |-> Add(p.designEngineering, p.repFee)]

\* part / (whole || 1)
shareOf(part, whole) == Div(part, OrElse(whole, R(1)))

\* contingency, waste and OH&P spread over the construction subcategories in
\* proportion to their base costs; freight and design carry none
costsWithMarkups(b, p) ==
  LET vesselAndInstall == Add(b.vesselMaterials, b.vesselInstall)
      equipmentAndInstall == Add(b.equipment, b.equipmentInstall)
      constructionBase == Add(vesselAndInstall, equipmentAndInstall)
      allMarkups == Add(Add(p.designContAmount, p.wasteAmount), p.ohpAmount)
      vesselMarkups == Mul(allMarkups, shareOf(vesselAndInstall, constructionBase))
      equipmentMarkups == Mul(allMarkups, shareOf(equipmentAndInstall, constructionBase))
  IN  [vesselMaterials |->
         Add(b.vesselMaterials, Mul(vesselMarkups, shareOf(b.vesselMaterials, vesselAndInstall))),
       vesselInstall |->
         Add(b.vesselInstall, Mul(vesselMarkups, shareOf(b.vesselInstall, vesselAndInstall))),
       equipment |->
         Add(b.equipment, Mul(equipmentMarkups, shareOf(b.equipment, equipmentAndInstall))),
       equipmentInstall |->
         Add(b.equipmentInstall,
             Mul(equipmentMarkups, shareOf(b.equipmentInstall, equipmentAndInstall))),
       freightHandling |-> b.freightHandling,
       designEngineering |-> b.designEngineering]

\* the breakdown object from the marked-up costs c: every cost takes its
\* share of the warranty reserve
breakdownOf(c, p) ==
  LET vesselAndInstallCost == Add(c.vesselMaterials, c.vesselInstall)
      equipmentAndInstallCost == Add(c.equipment, c.equipmentInstall)
      totalBeforeWarranty ==
        Add(Add(Add(vesselAndInstallCost, equipmentAndInstallCost), c.freightHandling),
            c.designEngineering)
      warrantyShare == shareOf(p.warrantyReserve, totalBeforeWarranty)
      entry(cost, warranty) ==
        [cost |-> Add(cost, warranty),
         pct |-> Mul(Div(Add(cost, warranty), p.clientPrice), R(100))]
      sub(cost) == entry(cost, Mul(cost, warrantyShare))
      both(x, y) == entry(Add(x, y), Add(Mul(x, warrantyShare), Mul(y, warrantyShare)))
  IN  [vesselAndInstall |->
         both(c.vesselMaterials, c.vesselInstall) @@
         [subcategories |-> [materials |-> sub(c.vesselMaterials),
                             install |-> sub(c.vesselInstall)]],
       equipmentAndInstall |->
         both(c.equipment, c.equipmentInstall) @@
         [subcategories |-> [equipment |-> sub(c.equipment),
                             install |-> sub(c.equipmentInstall)]],
       freightHandling |-> sub(c.freightHandling),
       designEngineering |-> sub(c.designEngineering)]

\* scopeBreakdown of the project p of the vessel results vc: <<>> stands for
\* null
scopeBreakdown(vc, p) ==
  IF Gt(p.clientPrice, R(0)) THEN <<breakdownOf(costsWithMarkups(baseCosts(vc, p), p), p)>>
  ELSE <<>>

(* ------------------------------ bounds ------------------------------- *)
MaxVessels == 3

MaxEdits == 1

(* --------------------------- input snapshots -------------------------- *)
\* Equipment catalog: a bounded stand-in for DEFAULT_PACKAGES
Catalog ==
  << [key |-> "cp-1-2", appliesTo |-> {"Cold Plunge"},
      items |-> << [label |-> "Chiller", cost |-> R(13)], [label |-> "Pump", cost |-> R(3)] >>],
     [key |-> "cp-3-4", appliesTo |-> {"Cold Plunge"},
      items |-> << [label |-> "Chiller", cost |-> R(18)], [label |-> "Pump", cost |-> Q(7, 2)] >>],
     [key |-> "ht-standard", appliesTo |-> {"Hot Tub"},
      items |-> << [label |-> "Heater", cost |-> R(4)], [label |-> "Jet pump", cost |-> R(3)],
                   [label |-> "Filter", cost |-> R(2)] >>] >>

\* The rate snapshot the runs start from; the base plate thickness weighs
\* 2 lb per square foot
BaseValue(k) ==
  CASE k = "epsBundlePerSf" -> R(1)
    [] k = "tileMaterialsPerSf" -> R(2)
    [] k = "ffeMaterialsPerVessel" -> R(3)
    [] k = "epsWpLaborPerSf" -> R(2)
    [] k = "tileLaborPerSf" -> R(2)
    [] k = "ffeLaborPerVessel" -> R(1)
    [] k = "equipPlumbPerVessel" -> R(3)
    [] k = "handrailInstallPerEa" -> R(0)
    [] k = "refrigLinePerCP" -> R(2)
    [] k = "startupLump" -> R(3)
    [] k = "repOnsiteFee" -> R(2)
    [] k = "riggingPerVessel" -> R(2)
    [] k = "regionMult" -> R(1)
    [] k = "miles" -> R(3)
    [] k = "dollarsPerMile" -> Q(1, 2)
    [] k = "handlingPerVessel" -> R(1)
    [] k = "designBase" -> R(3)
    [] k = "designMult" -> R(1)
    [] k = "projectChemicalStorageCost" -> R(1)
    [] k = "designContPct" -> R(50)
    [] k = "warrantyPctOfClient" -> R(50)
    [] k = "ohpPct" -> R(25)
    [] k = "wastePct" -> R(25)
    [] k = "ss304LPricePerLb" -> R(1)
    [] k = "ss316LPricePerFt" -> R(1)
    [] k = "plateThickness" -> Q(5, 1224)
    [] k = "bitumasticCoatingPerSf" -> R(1)
    [] k = "sacrificialAnodePerVessel" -> R(2)
    [] k = "tigWelderRatePerHr" -> R(1)
    [] k = "welderLoadedMult" -> R(1)
    [] k = "weldingTimePerLf" -> R(1)
    [] k = "grindingTimePerLf" -> R(0)
    [] k = "polishingTimePerLf" -> R(1)
    [] k = "passivationPerSf" -> R(1)
    [] k = "leakTestPerVessel" -> R(1)
    [] k = "qualityCertPerVessel" -> R(1)
    [] k = "steelTubingPricePerFt" -> R(1)
    [] k = "steelFabricationPerFt" -> R(1)

BaseRate(ver) == [k \in RateNamesOf(ver) |-> BaseValue(k)]

\* useState(true) for includeRigging and useProjectChemicalStorage, useState(false) for includeAdaFrame
BaseOpts(ver) == [k \in OptNamesOf(ver) |-> k # "includeAdaFrame"]

NumInputs == {R(-1), R(4)}

PctInputs == {R(-5), R(75), R(100)}

\* plate thicknesses whose weight per square foot (thickness * 12 * 40.8) is 0 and 4
PlateInputs == {R(-1), Q(5, 612)}

RateInputs(k) ==
  IF k \in PctNames THEN PctInputs
  ELSE IF k = "plateThickness" THEN PlateInputs
  ELSE NumInputs

Ids == 1..MaxVessels

mkVessel(id, t, nm, L, W, D, bench, rails, refr, jets, key) ==
  [id |-> id, type |-> t, name |-> nm,
   length_ft |-> L, width_ft |-> W, waterDepth_ft |-> D,
   benchSf |-> bench, extraSf |-> R(0), handrails |-> rails,
   refrigerationLine |-> refr, jets |-> jets,
   equipmentPackageKey |-> key, collapsed |-> TRUE]

\* a vessel of the latest version; bench height and step sizes are fixed here
mkVesselLatest(id, t, nm, L, W, D, rails, refr, jets, key, hasBench, bL, bD) ==
  [id |-> id, type |-> t, name |-> nm,
   length_ft |-> L, width_ft |-> W, waterDepth_ft |-> D, wallHeight_ft |-> D,
   handrails |-> rails, refrigerationLine |-> refr, jets |-> jets,
   equipmentPackageKey |-> key, collapsed |-> TRUE,
   hasBench |-> hasBench, benchLength_ft |-> bL, benchDepth_ft |-> bD,
   benchHeight_ft |-> Q(3, 2),
   hasSteps |-> FALSE, stepsWidth_ft |-> R(2), stepsCount |-> R(3),
   stepRiser_ft |-> Q(1, 2), stepTread_ft |-> R(1),
   bathers |-> R(2), eps_wall_thickness_ft |-> R(1), eps_floor_thickness_ft |-> Q(667, 1000)]

\* a cold plunge and a hot tub with the package keys cpKey and htKey
TwoVessels(ver, cpKey, htKey) ==
  IF ver = "first"
  THEN << mkVessel(1, "Cold Plunge", <<"CP", 1>>, R(2), R(1), Q(3, 2), R(0), R(1), TRUE, R(0), cpKey),
          mkVessel(2, "Hot Tub", <<"HT", 1>>, R(3), R(2), Q(3, 2), R(4), R(2), FALSE, R(7), htKey) >>
  ELSE << mkVesselLatest(1, "Cold Plunge", <<"CP", 1>>, R(2), R(1), Q(3, 2), R(1), TRUE, R(0), cpKey,
                         FALSE, R(3), Q(3, 2)),
          mkVesselLatest(2, "Hot Tub", <<"HT", 1>>, R(3), R(2), Q(3, 2), R(2), FALSE, R(7), htKey,
                         TRUE, R(3), R(1)) >>

\* one cold plunge with the package key cpKey
OneVessel(ver, cpKey) == SubSeq(TwoVessels(ver, cpKey, "ht-standard"), 1, 1)

\* Vessel lists the screen can show: every key names a package of the vessel's
\* type. The first version can empty its list and add to it; the latest
\* version duplicates and removes.
InitVesselLists(ver) ==
  IF ver = "first"
  THEN { <<>>, TwoVessels(ver, "cp-1-2", "ht-standard") }
  ELSE { OneVessel(ver, "cp-1-2"), TwoVessels(ver, "cp-1-2", "ht-standard") }

\* Vessel lists handed to the engine with values the card never produces:
\* a key that names a package of the other type, a key no package has, and
\* a jet count that is not finite
EngineVesselLists(ver) ==
  { OneVessel(ver, "ht-standard"), TwoVessels(ver, "ht-standard", "ht-retired"),
    [TwoVessels(ver, "cp-1-2", "ht-standard") EXCEPT ![2].jets = Inf] }

\* a per-vessel memo that leaves packages out of its dependency list: it
\* keeps computing from the catalog it was first given
CalcsStalePackages(ver, ct, sc, op, rt, pk, vs) ==
  IF ver = "first" THEN vesselCalcs(sc, rt, Catalog, vs)
  ELSE vesselCalcsLatest(sc, op, rt, ct, Catalog, vs)

(* ------------------------------ rendering ----------------------------- *)
\* the vesselCalcs useMemo of the version
Calcs(ver, ct, sc, op, rt, pk, vs) ==
  IF ver = "first" THEN vesselCalcs(sc, rt, pk, vs)
  ELSE vesselCalcsLatest(sc, op, rt, ct, pk, vs)

\* the project useMemo of the version
Proj(ver, ct, sc, op, rt, vs, vc) ==
  IF ver = "first" THEN project(sc, op, rt, vs, vc)
  ELSE projectLatest(sc, op, rt, ct, vs, vc)

\* both useMemo values are recomputed from the new state
Recompute ==
  /\ calcs' = Calcs(version', constructionType', scope', opts', rate', packages', vessels')
  /\ proj' = Proj(version', constructionType', scope', opts', rate', vessels', calcs')
  /\ renderError' = projectThrows(scope', rate')

\* Every state change of the calculator re-renders the component; a mounted
\* VesselVisualization keeps its own state across the re-render.
Render == Recompute /\ UNCHANGED <<vizVars, quickAdd, budget>>

(* --------------------------- quick-add dialog ------------------------- *)
\* Math.round(Math.sqrt(x)) for a finite x >= 0: the k with
\* (k - 1/2)^2 <= x < (k + 1/2)^2
RoundSqrt(x) ==
  CHOOSE k \in 0..200 :
    /\ k = 0 \/ Le(R((2 * k - 1) * (2 * k - 1)), Mul(R(4), x))
    /\ Lt(Mul(R(4), x), R((2 * k + 1) * (2 * k + 1)))

\* the table of common sizes up to 12 bathers, then a 2:1 rectangle of 10
\* square feet per bather, rounded to half feet
autoSizeDimensions(bathers) ==
  IF Le(bathers, R(2)) THEN [length |-> R(6), width |-> Q(7, 2)]
  ELSE IF Le(bathers, R(3)) THEN [length |-> R(7), width |-> Q(9, 2)]
  ELSE IF Le(bathers, R(4)) THEN [length |-> R(8), width |-> R(5)]
  ELSE IF Le(bathers, R(6)) THEN [length |-> R(10), width |-> R(6)]
  ELSE IF Le(bathers, R(8)) THEN [length |-> R(12), width |-> R(7)]
  ELSE IF Le(bathers, R(10)) THEN [length |-> R(14), width |-> Q(15, 2)]
  ELSE IF Le(bathers, R(12)) THEN [length |-> R(15), width |-> R(8)]
  ELSE IF ~IsFinite(bathers) THEN [length |-> bathers, width |-> bathers]
  ELSE \* width = sqrt(5 b), length = 2 width; Math.round(2 x) / 2 of each
       [length |-> Q(RoundSqrt(Mul(R(80), bathers)), 2),
        width |-> Q(RoundSqrt(Mul(R(20), bathers)), 2)]

\* the bather count set to b, and the effect on [quickAddBathers] that
\* follows the render when the count has changed
withBathers(q, b) ==
  IF b = q.bathers THEN q
  ELSE [q EXCEPT !.bathers = b,
                 !.length = autoSizeDimensions(b).length,
                 !.width = autoSizeDimensions(b).width]

\* the useState initializers of the dialog, after the effect of the mount
QuickAddMounted ==
  LET initial == [show |-> FALSE, type |-> "Cold Plunge", bathers |-> R(2),
                  length |-> R(6), width |-> R(4), depth |-> Q(7, 2), name |-> <<"", 0>>]
  IN  [initial EXCEPT !.length = autoSizeDimensions(initial.bathers).length,
                      !.width = autoSizeDimensions(initial.bathers).width]

\* no element selected, nothing dragged
NoSelection == [type |-> "none", id |-> 0]

\* the visualization before any interaction with it, for a vessel without
\* bench or steps
VizIdle ==
  /\ benches = <<>> /\ steps = <<>>
  /\ viewMode = "plan" /\ dragging = NoSelection /\ selectedElement = NoSelection

DirectScopes == {"scopeMaterials", "scopeLabor", "scopeEquipment"}

AllOn == [k \in ScopeNames |-> TRUE]

InitScopes == {AllOn, [k \in ScopeNames |-> k \notin DirectScopes]}

\* the state after construction, at one of the snapshots; lists maps a
\* version to its vessel lists
InitWith(lists, scopes) ==
  /\ version \in Versions
  /\ constructionType \in (IF version = "first" THEN {"EPS"} ELSE ConstructionTypes)
  /\ scope \in scopes
  /\ opts = BaseOpts(version)
  /\ rate = BaseRate(version)
  /\ packages = Catalog
  /\ vessels \in lists[version]
  /\ scope = AllOn \/ (vessels = TwoVessels(version, "cp-1-2", "ht-standard") /\ constructionType = "EPS")
  /\ edits = 0
  /\ calcs = Calcs(version, constructionType, scope, opts, rate, packages, vessels)
  /\ proj = Proj(version, constructionType, scope, opts, rate, vessels, calcs)
  /\ renderError = projectThrows(scope, rate)
  /\ VizIdle
  /\ quickAdd = QuickAddMounted
  /\ budget = MaxEdits

Init == InitWith([ver \in Versions |-> InitVesselLists(ver)], InitScopes)

\* the engine applied to vessel lists with unresolvable package keys
InitEngine == InitWith([ver \in Versions |-> EngineVesselLists(ver)], {AllOn})

(* ------------------------------ handlers ------------------------------ *)
\* checkbox onChange={e => setScopeX(e.target.checked)}
SetScope(k) ==
  /\ edits < budget
  /\ scope' = [scope EXCEPT ![k] = ~@]
  /\ edits' = edits + 1
  /\ UNCHANGED <<version, constructionType, opts, rate, packages, vessels>>
  /\ Render

\* the "Include Rigging?" checkbox; the latest version shows it in the EPS labor card
setIncludeRigging ==
  /\ edits < budget
  /\ version = "first" \/ constructionType = "EPS"
  /\ opts' = [opts EXCEPT !["includeRigging"] = ~@]
  /\ edits' = edits + 1
  /\ UNCHANGED <<version, constructionType, scope, rate, packages, vessels>>
  /\ Render

\* the ADA frame checkbox of the stainless steel materials card
setIncludeAdaFrame ==
  /\ edits < budget
  /\ version = "latest" /\ constructionType = "Stainless Steel"
  /\ opts' = [opts EXCEPT !["includeAdaFrame"] = ~@]
  /\ edits' = edits + 1
  /\ UNCHANGED <<version, constructionType, scope, rate, packages, vessels>>
  /\ Render

\* the construction type radio buttons
setConstructionType(c) ==
  /\ edits < budget
  /\ version = "latest" /\ c # constructionType
  /\ constructionType' = c
  /\ edits' = edits + 1
  /\ UNCHANGED <<version, scope, opts, rate, packages, vessels>>
  /\ Render

\* the rates that have an input on screen
UIRates(ver, ct, op) ==
  IF ver = "first" \/ ct = "EPS"
  THEN RateNames \ {"handrailInstallPerEa", "projectChemicalStorageCost"}
  ELSE PctNames \cup {"designBase", "designMult", "miles", "dollarsPerMile",
                      "handlingPerVessel", "equipPlumbPerVessel"}
       \cup SsMaterialRates \cup SsLaborRates
       \cup (IF op.includeAdaFrame THEN AdaRates ELSE {})

\* <Num onChange={setX}> for every rate, percentage and multiplier
SetRate(k, x) ==
  /\ edits < budget
  /\ k \in UIRates(version, constructionType, opts)
  /\ x # rate[k]
  /\ rate' = [rate EXCEPT ![k] = x]
  /\ edits' = edits + 1
  /\ UNCHANGED <<version, constructionType, scope, opts, packages, vessels>>
  /\ Render

Count(vs, t) == Cardinality({i \in 1..Len(vs) : vs[i].type = t})

\* `${prefix}-${nextNum}`
nextName(vs, t) == <<(IF t = "Cold Plunge" THEN "CP" ELSE "HT"), Count(vs, t) + 1>>

\* mutant of firstPkgKey: the first package of the catalog, whatever it
\* applies to
firstPkgKeyAnyType(pk, t) ==
  IF pk = <<>> THEN (IF t = "Cold Plunge" THEN "cp-1-2" ELSE "ht-standard") ELSE pk[1].key

\* packages.find(p => p.appliesTo.includes(t))?.key ?? fallBack
firstPkgKey(pk, t) ==
  LET hits == {i \in 1..Len(pk) : t \in pk[i].appliesTo}
  IN  IF hits = {} THEN (IF t = "Cold Plunge" THEN "cp-1-2" ELSE "ht-standard")
      ELSE pk[Min(hits)].key

\* first version; id is the fresh value of mkId()
addVessel(t, id) ==
  /\ edits < budget
  /\ version = "first"
  /\ Len(vessels) < MaxVessels
  /\ \A i \in 1..Len(vessels) : vessels[i].id # id
  /\ vessels' = Append(vessels,
        [id |-> id, type |-> t, name |-> nextName(vessels, t),
         length_ft |-> IF t = "Cold Plunge" THEN R(10) ELSE R(8),
         width_ft |-> IF t = "Cold Plunge" THEN R(3) ELSE R(8),
         waterDepth_ft |-> Q(7, 2),
         benchSf |-> IF t = "Hot Tub" THEN R(40) ELSE R(0),
         extraSf |-> R(0),
         handrails |-> R(1),
         refrigerationLine |-> (t = "Cold Plunge"),
         jets |-> IF t = "Hot Tub" THEN R(6) ELSE R(0),
         equipmentPackageKey |-> firstPkgKey(packages, t),
         collapsed |-> TRUE])
  /\ edits' = edits + 1
  /\ UNCHANGED <<version, constructionType, scope, opts, rate, packages>>
  /\ Render

\* latest version; newId is the fresh value of mkId()
duplicateVessel(id, newId) ==
  /\ edits < budget
  /\ version = "latest"
  /\ Len(vessels) < MaxVessels
  /\ \A i \in 1..Len(vessels) : vessels[i].id # newId
  /\ \E i \in 1..Len(vessels) :
        /\ vessels[i].id = id
        /\ \A j \in 1..(i - 1) : vessels[j].id # id
        /\ vessels' = Append(vessels,
              [vessels[i] EXCEPT !.id = newId,
                                 !.name = nextName(vessels, vessels[i].type),
                                 !.collapsed = FALSE])
  /\ edits' = edits + 1
  /\ UNCHANGED <<version, constructionType, scope, opts, rate, packages>>
  /\ Render

removeVessel(id) ==
  /\ edits < budget
  /\ \E i \in 1..Len(vessels) : vessels[i].id = id
  /\ vessels' = SelectSeq(vessels, LAMBDA x : x.id # id)
  /\ edits' = edits + 1
  /\ UNCHANGED <<version, constructionType, scope, opts, rate, packages>>
  /\ Render

\* mutant of updateVessel: the patch lands on every vessel of the list
updateVesselEvery(id, patch) ==
  /\ edits < budget
  /\ \E i \in 1..Len(vessels) : vessels[i].id = id /\ \E f \in DOMAIN patch : vessels[i][f] # patch[f]
  /\ vessels' = [i \in 1..Len(vessels) |->
                   [f \in DOMAIN vessels[i] |->
                      IF f \in DOMAIN patch THEN patch[f] ELSE vessels[i][f]]]
  /\ edits' = edits + 1
  /\ UNCHANGED <<version, constructionType, scope, opts, rate, packages>>
  /\ Render

\* setVessels(v => v.map(x => (x.id === id ? { ...x, ...patch } : x)))
updateVessel(id, patch) ==
  /\ edits < budget
  /\ \E i \in 1..Len(vessels) : vessels[i].id = id /\ \E f \in DOMAIN patch : vessels[i][f] # patch[f]
  /\ vessels' = [i \in 1..Len(vessels) |->
                   IF vessels[i].id = id
                   THEN [f \in DOMAIN vessels[i] |->
                           IF f \in DOMAIN patch THEN patch[f] ELSE vessels[i][f]]
                   ELSE vessels[i]]
  /\ edits' = edits + 1
  /\ UNCHANGED <<version, constructionType, scope, opts, rate, packages>>
  /\ Render

\* latest version, package editor: cost: clampN(n) of line item i of package p
setPackageCost(p, i, x) ==
  /\ edits < budget
  /\ version = "latest"
  /\ packages[p].items[i].cost # clampN(x)
  /\ packages' = [packages EXCEPT ![p].items[i].cost = clampN(x)]
  /\ edits' = edits + 1
  /\ UNCHANGED <<version, constructionType, scope, opts, rate, vessels>>
  /\ Render

(* ------------------------------ vessel card --------------------------- *)
JetInputs == {R(-1), R(6), R(8)}

\* the bench and step dimensions are entered in inches
InchInputs == {R(-12), R(18)}

StepCountInputs == {R(-1), Q(3, 2)}

Patch(f, x) == [g \in {f} |-> x]

\* numeric fields of the card, per version
NumFields(ver) ==
  IF ver = "first"
  THEN {"length_ft", "width_ft", "waterDepth_ft", "benchSf", "extraSf", "handrails"}
  ELSE {"length_ft", "width_ft", "waterDepth_ft", "handrails"}

\* bench and steps inputs of the latest version, shown when the feature is on
BenchPatches(v) ==
  {Patch("hasBench", ~v.hasBench)}
  \cup (IF v.hasBench
        THEN {Patch(f, Div(x, R(12))) :
                f \in {"benchLength_ft", "benchDepth_ft", "benchHeight_ft"}, x \in InchInputs}
        ELSE {})

StepsPatches(v) ==
  {Patch("hasSteps", ~v.hasSteps)}
  \cup (IF v.hasSteps
        THEN {Patch(f, Div(x, R(12))) :
                f \in {"stepsWidth_ft", "stepRiser_ft", "stepTread_ft"}, x \in InchInputs}
             \cup {Patch("stepsCount", Round(x)) : x \in StepCountInputs}
        ELSE {})

\* The patches the vessel card can produce for vessel v
Patches(ver, v) ==
  {Patch(f, x) : f \in NumFields(ver), x \in NumInputs}
  \cup (IF v.type = "Cold Plunge"
        THEN {Patch("refrigerationLine", ~v.refrigerationLine)}
        ELSE {Patch("jets", x) : x \in JetInputs})
  \cup {Patch("equipmentPackageKey", packages[i].key) :
          i \in {j \in 1..Len(packages) : v.type \in packages[j].appliesTo}}
  \cup (IF ver = "latest" THEN BenchPatches(v) \cup StepsPatches(v) ELSE {})

Next ==
  \/ \E k \in ScopeNames : SetScope(k)
  \/ setIncludeRigging
  \/ setIncludeAdaFrame
  \/ \E c \in ConstructionTypes : setConstructionType(c)
  \/ \E k \in RateNamesOf(version) : \E x \in RateInputs(k) : SetRate(k, x)
  \/ \E t \in VesselTypes : \E id \in Ids : addVessel(t, id)
  \/ \E i \in 1..Len(vessels) : \E id \in Ids : duplicateVessel(vessels[i].id, id)
  \/ \E i \in 1..Len(vessels) : removeVessel(vessels[i].id)
  \/ \E i \in 1..Len(vessels) : \E p \in Patches(version, vessels[i]) :
        updateVessel(vessels[i].id, p)
  \/ \E p \in 1..Len(packages) : \E i \in 1..Len(packages[p].items) : \E x \in NumInputs :
        setPackageCost(p, i, x)

Spec == Init /\ [][Next]_vars

SpecEngine == InitEngine /\ [][Next]_vars

(* ====================================================================== *)
(*          VesselVisualization: the plan and elevation editor             *)
(* ====================================================================== *)
\* The component keeps the bench and steps elements of one vessel in its own
\* state and hands them to the calculator through onVesselUpdate, which is
\* updateVessel of the vessel's card. A handler reads benches and steps as
\* they were rendered: an update it queues with setBenches or setSteps is
\* not visible to the syncToVessel call that follows it in the same handler.

\* handler invocations in a run of the visualization, and in a run of the
\* vessel list with its quick-add dialog
MaxOps == 4

MaxElements == 2

\* the card whose visualization is open
VizIndex == 1

\* Math.min
MinN(x, y) == IF IsNaN(x) \/ IsNaN(y) THEN NaN ELSE IF Lt(y, x) THEN y ELSE x

\* { ...r, ...u }
Merge(r, u) == [f \in DOMAIN r \cup DOMAIN u |-> IF f \in DOMAIN u THEN u[f] ELSE r[f]]

\* useState initializer of benches: the stored list, or one bench migrated
\* from the single-bench fields
initialBenches(v) ==
  IF "benches" \in DOMAIN v /\ Len(v.benches) > 0 THEN v.benches
  ELSE IF v.hasBench
  THEN << [id |-> 1,
           x |-> Div(Sub(v.length_ft, v.benchLength_ft), R(2)),
           y |-> Sub(Sub(v.width_ft, v.benchDepth_ft), Q(1, 2)),
           length_ft |-> v.benchLength_ft, depth_ft |-> v.benchDepth_ft,
           height_ft |-> v.benchHeight_ft, rotation |-> "N"] >>
  ELSE <<>>

\* useState initializer of steps
initialSteps(v) ==
  IF "steps" \in DOMAIN v /\ Len(v.steps) > 0 THEN v.steps
  ELSE IF v.hasSteps
  THEN << [id |-> 1,
           x |-> Q(1, 2),
           y |-> Sub(Sub(v.width_ft, Mul(v.stepsCount, v.stepTread_ft)), Q(1, 2)),
           width_ft |-> v.stepsWidth_ft, count |-> v.stepsCount,
           tread_ft |-> v.stepTread_ft, riser_ft |-> v.stepRiser_ft,
           rotation |-> "N", autoSize |-> FALSE] >>
  ELSE <<>>

\* L, W and H of the drawing: the vessel's dimensions, at least 0
VizDims(v) ==
  [L |-> MaxN(R(0), v.length_ft), W |-> MaxN(R(0), v.width_ft), H |-> MaxN(R(0), v.wallHeight_ft)]

\* ideal riser 0.58 ft, tread 1 ft, a third of the wall the steps touch
calculateAutoSizeSteps(v, rotation) ==
  LET stepCount == Ceil(Div(v.wallHeight_ft, Q(29, 50)))
  IN  [count |-> stepCount,
       riser_ft |-> Div(v.wallHeight_ft, stepCount),
       tread_ft |-> R(1),
       width_ft |-> IF rotation \in {"N", "S"} THEN Mul(VizDims(v).L, Q(33, 100))
                    ELSE Mul(VizDims(v).W, Q(33, 100))]

\* width and depth of an element in plan, by rotation
getRotatedDimensions(e, rotation) ==
  IF "length_ft" \in DOMAIN e
  THEN IF rotation \in {"N", "S"}
       THEN [width |-> e.length_ft, depth |-> e.depth_ft]
       ELSE [width |-> e.depth_ft, depth |-> e.length_ft]
  ELSE IF rotation \in {"N", "S"}
       THEN [width |-> e.width_ft, depth |-> Mul(e.count, e.tread_ft)]
       ELSE [width |-> Mul(e.count, e.tread_ft), depth |-> e.width_ft]

\* Math.max(0, Math.min(p, limit))
clampTo(p, limit) == MaxN(R(0), MinN(p, limit))

\* the element e of kind type dragged to pos in the view mode
draggedTo(e, type, mode, pos, d) ==
  IF mode = "plan"
  THEN [e EXCEPT !.x = clampTo(pos.x, Sub(d.L, getRotatedDimensions(e, e.rotation).width)),
                 !.y = clampTo(pos.y, Sub(d.W, getRotatedDimensions(e, e.rotation).depth))]
  ELSE IF type = "bench"
  THEN LET alongL == e.rotation \in {"N", "S"}
           height == MaxN(Q(1, 2), MinN(pos.y, Sub(d.H, Q(1, 2))))
       IN  IF mode = "elevation-front"
           THEN [e EXCEPT !.x = clampTo(pos.x, Sub(d.L, IF alongL THEN e.length_ft ELSE e.depth_ft)),
                          !.height_ft = height]
           ELSE [e EXCEPT !.y = clampTo(pos.x, Sub(d.W, IF alongL THEN e.length_ft ELSE e.depth_ft)),
                          !.height_ft = height]
  ELSE LET alongL == e.rotation \in {"N", "S"}
           run == Mul(e.count, e.tread_ft)
       IN  IF mode = "elevation-front"
           THEN [e EXCEPT !.x = clampTo(pos.x, Sub(d.L, IF alongL THEN e.width_ft ELSE run))]
           ELSE [e EXCEPT !.y = clampTo(pos.x, Sub(d.W, IF alongL THEN run ELSE e.width_ft))]

\* the argument syncToVessel hands to onVesselUpdate, from the lists bs and ss
syncUpdate(bs, ss) ==
  [benches |-> bs, steps |-> ss, hasBench |-> Len(bs) > 0, hasSteps |-> Len(ss) > 0]

\* syncToVessel as a handler runs it: onVesselUpdate is updateVessel of the
\* card, the lists are those of the render the handler belongs to
syncToVessel ==
  /\ vessels' = [vessels EXCEPT ![VizIndex] = Merge(@, syncUpdate(benches, steps))]
  /\ UNCHANGED <<version, constructionType, scope, opts, rate, packages, quickAdd, budget>>
  /\ Recompute

\* s.map(e => e.id === id ? f(e) : e), with f given as a function
mapElement(s, id, f) == [i \in 1..Len(s) |-> IF s[i].id = id THEN f[s[i]] ELSE s[i]]

Elements(type) == IF type = "bench" THEN benches ELSE steps

\* the list of one kind is replaced, the other is kept
setElements(type, s) ==
  IF type = "bench" THEN benches' = s /\ UNCHANGED steps
  ELSE steps' = s /\ UNCHANGED benches

\* id of a duplicate (Date.now() in the source): an id not in use
freshId(s) == 1 + Len(s) + Cardinality({i \in 1..Len(s) : s[i].id > Len(s)})

setViewMode(m) ==
  /\ m # viewMode
  /\ edits < MaxOps
  /\ viewMode' = m
  /\ edits' = edits + 1
  /\ UNCHANGED <<benches, steps, dragging, selectedElement>>
  /\ UNCHANGED <<version, constructionType, scope, opts, rate, packages, vessels>>
  /\ UNCHANGED <<quickAdd, budget>>
  /\ Recompute

handleMouseDown(type, id) ==
  /\ \E i \in 1..Len(Elements(type)) : Elements(type)[i].id = id
  /\ edits < MaxOps
  /\ dragging' = [type |-> type, id |-> id]
  /\ selectedElement' = [type |-> type, id |-> id]
  /\ edits' = edits + 1
  /\ UNCHANGED <<benches, steps, viewMode>>
  /\ UNCHANGED <<version, constructionType, scope, opts, rate, packages, vessels>>
  /\ UNCHANGED <<quickAdd, budget>>
  /\ Recompute

handleMouseMove(pos) ==
  /\ dragging # NoSelection
  /\ edits < MaxOps
  /\ setElements(dragging.type,
                 mapElement(Elements(dragging.type), dragging.id,
                            [e \in Range(Elements(dragging.type)) |->
                               draggedTo(e, dragging.type, viewMode, pos, VizDims(vessels[VizIndex]))]))
  /\ edits' = edits + 1
  /\ UNCHANGED <<viewMode, dragging, selectedElement>>
  /\ UNCHANGED <<version, constructionType, scope, opts, rate, packages, vessels>>
  /\ UNCHANGED <<quickAdd, budget>>
  /\ Recompute

\* onMouseUp and onMouseLeave of the drawing
handleMouseUp ==
  /\ edits < MaxOps
  /\ dragging' = NoSelection
  /\ edits' = edits + 1
  /\ UNCHANGED <<benches, steps, viewMode, selectedElement>>
  /\ syncToVessel

\* mutant of nextRotation: the cycle run the other way round
nextRotationCounterClockwise(r) ==
  CASE r = "N" -> "W" [] r = "W" -> "S" [] r = "S" -> "E" [] r = "E" -> "N"

nextRotation(r) ==
  CASE r = "N" -> "E" [] r = "E" -> "S" [] r = "S" -> "W" [] r = "W" -> "N"

\* mutant of rotated: auto-sized steps keep their size when they turn
rotatedKeepingSize(e, v) == [e EXCEPT !.rotation = nextRotation(e.rotation)]

rotated(e, v) ==
  IF "autoSize" \in DOMAIN e /\ e.autoSize
  THEN [Merge(e, calculateAutoSizeSteps(v, nextRotation(e.rotation)))
          EXCEPT !.rotation = nextRotation(e.rotation)]
  ELSE [e EXCEPT !.rotation = nextRotation(e.rotation)]

rotateElement ==
  /\ selectedElement # NoSelection
  /\ edits < MaxOps
  /\ setElements(selectedElement.type,
                 mapElement(Elements(selectedElement.type), selectedElement.id,
                            [e \in Range(Elements(selectedElement.type)) |->
                               rotated(e, vessels[VizIndex])]))
  /\ edits' = edits + 1
  /\ UNCHANGED <<viewMode, dragging, selectedElement>>
  /\ syncToVessel

\* the copy of element e, one foot down and to the right
duplicateOf(e, id, d) ==
  IF "length_ft" \in DOMAIN e
  THEN [e EXCEPT !.id = id,
                 !.x = MinN(Add(e.x, R(1)), Sub(d.L, e.length_ft)),
                 !.y = MinN(Add(e.y, R(1)), Sub(d.W, e.depth_ft))]
  ELSE [e EXCEPT !.id = id,
                 !.x = MinN(Add(e.x, R(1)), Sub(d.L, e.width_ft)),
                 !.y = MinN(Add(e.y, R(1)), Sub(d.W, Mul(e.count, e.tread_ft))),
                 !.autoSize = FALSE]

duplicateElement ==
  /\ selectedElement # NoSelection
  /\ edits < MaxOps
  /\ Len(Elements(selectedElement.type)) < MaxElements
  /\ LET s == Elements(selectedElement.type)
         found == {i \in 1..Len(s) : s[i].id = selectedElement.id}
     IN  IF found = {}
         THEN UNCHANGED <<benches, steps, selectedElement>>
         ELSE /\ setElements(selectedElement.type,
                             Append(s, duplicateOf(s[Min(found)], freshId(s),
                                                   VizDims(vessels[VizIndex]))))
              /\ selectedElement' = [type |-> selectedElement.type, id |-> freshId(s)]
  /\ edits' = edits + 1
  /\ UNCHANGED <<viewMode, dragging>>
  /\ syncToVessel

deleteElement ==
  /\ selectedElement # NoSelection
  /\ edits < MaxOps
  /\ setElements(selectedElement.type,
                 SelectSeq(Elements(selectedElement.type),
                           LAMBDA e : e.id # selectedElement.id))
  /\ selectedElement' = NoSelection
  /\ edits' = edits + 1
  /\ UNCHANGED <<viewMode, dragging>>
  /\ syncToVessel

toggleAutoSize ==
  /\ selectedElement # NoSelection /\ selectedElement.type = "steps"
  /\ edits < MaxOps
  /\ steps' = mapElement(steps, selectedElement.id,
                         [e \in Range(steps) |->
                            IF ~e.autoSize
                            THEN [Merge(e, calculateAutoSizeSteps(vessels[VizIndex], e.rotation))
                                    EXCEPT !.autoSize = TRUE]
                            ELSE [e EXCEPT !.autoSize = FALSE]])
  /\ edits' = edits + 1
  /\ UNCHANGED <<benches, viewMode, dragging, selectedElement>>
  /\ syncToVessel

updateSelectedElement(updates) ==
  /\ selectedElement # NoSelection
  /\ edits < MaxOps
  /\ setElements(selectedElement.type,
                 mapElement(Elements(selectedElement.type), selectedElement.id,
                            [e \in Range(Elements(selectedElement.type)) |->
                               IF selectedElement.type = "bench" THEN Merge(e, updates)
                               ELSE [Merge(e, updates) EXCEPT !.autoSize = FALSE]]))
  /\ edits' = edits + 1
  /\ UNCHANGED <<viewMode, dragging, selectedElement>>
  /\ syncToVessel

\* pointer positions, in feet
Positions == {[x |-> R(-1), y |-> R(9)], [x |-> R(2), y |-> R(1)]}

\* the property fields of the selected element: parseFloat(value) || 0, and
\* parseInt(value) || 1 for the step count
ElementUpdates(type) ==
  IF type = "bench"
  THEN {Patch("length_ft", R(4)), Patch("depth_ft", R(0))}
  ELSE {Patch("width_ft", R(4)), Patch("count", R(2))}

\* a card of the latest version, 8 ft by 6 ft, with a bench, with or without steps
VizVessel(hasBench, hasSteps) ==
  [OneVessel("latest", "cp-1-2")[1] EXCEPT !.length_ft = R(8), !.width_ft = R(6),
     !.benchDepth_ft = R(1), !.hasBench = hasBench, !.hasSteps = hasSteps]

\* the visualization is mounted on the card of a one-vessel project
InitViz ==
  /\ version = "latest" /\ constructionType = "EPS" /\ scope = AllOn
  /\ opts = BaseOpts(version) /\ rate = BaseRate(version) /\ packages = Catalog
  /\ \E hs \in BOOLEAN : vessels = <<VizVessel(TRUE, hs)>>
  /\ edits = 0
  /\ calcs = Calcs(version, constructionType, scope, opts, rate, packages, vessels)
  /\ proj = Proj(version, constructionType, scope, opts, rate, vessels, calcs)
  /\ renderError = projectThrows(scope, rate)
  /\ benches = initialBenches(vessels[VizIndex])
  /\ steps = initialSteps(vessels[VizIndex])
  /\ viewMode = "plan" /\ dragging = NoSelection /\ selectedElement = NoSelection
  /\ quickAdd = QuickAddMounted
  /\ budget = MaxOps

NextViz ==
  \/ \E m \in {"plan", "elevation-front", "elevation-side"} : setViewMode(m)
  \/ \E t \in {"bench", "steps"} : \E i \in 1..Len(Elements(t)) : handleMouseDown(t, Elements(t)[i].id)
  \/ \E pos \in Positions : handleMouseMove(pos)
  \/ handleMouseUp
  \/ rotateElement
  \/ duplicateElement
  \/ deleteElement
  \/ toggleAutoSize
  \/ \E u \in ElementUpdates(selectedElement.type) : updateSelectedElement(u)

SpecViz == InitViz /\ [][NextViz]_vars

(* ====================================================================== *)
(*              the vessel list and its quick-add dialog                  *)
(* ====================================================================== *)
\* a state change of the dialog alone: the calculator re-renders around it
dialogStep(q) ==
  /\ version = "latest"
  /\ edits < budget
  /\ quickAdd' = q
  /\ edits' = edits + 1
  /\ UNCHANGED <<version, constructionType, scope, opts, rate, packages, vessels>>
  /\ UNCHANGED <<vizVars, budget>>
  /\ Recompute

\* the "+ Cold Plunge" and "+ Hot Tub" buttons
openQuickAdd(t) ==
  /\ t \in VesselTypes
  /\ dialogStep([withBathers(quickAdd, IF t = "Cold Plunge" THEN R(2) ELSE R(6))
                   EXCEPT !.type = t, !.name = nextName(vessels, t),
                          !.depth = Q(7, 2), !.show = TRUE])

\* the inputs of the dialog are on screen while it is shown
setQuickAddBathers(n) ==
  quickAdd.show /\ n # quickAdd.bathers /\ dialogStep(withBathers(quickAdd, n))

setQuickAddLength(x) ==
  quickAdd.show /\ x # quickAdd.length /\ dialogStep([quickAdd EXCEPT !.length = x])

setQuickAddWidth(x) ==
  quickAdd.show /\ x # quickAdd.width /\ dialogStep([quickAdd EXCEPT !.width = x])

setQuickAddDepth(x) ==
  quickAdd.show /\ x # quickAdd.depth /\ dialogStep([quickAdd EXCEPT !.depth = x])

setQuickAddName(nm) ==
  quickAdd.show /\ nm # quickAdd.name /\ dialogStep([quickAdd EXCEPT !.name = nm])

\* the close button and the Cancel button: setShowQuickAdd(false)
closeQuickAdd == quickAdd.show /\ dialogStep([quickAdd EXCEPT !.show = FALSE])

\* the vessel the Add Vessel button appends
quickAddVessel(q, pk, id) ==
  [mkVesselLatest(id, q.type, q.name, q.length, q.width, q.depth, R(1),
                  q.type = "Cold Plunge", (IF q.type = "Hot Tub" THEN R(6) ELSE R(0)),
                  firstPkgKey(pk, q.type), q.type = "Hot Tub", q.length, R(2))
     EXCEPT !.collapsed = FALSE, !.stepRiser_ft = Q(29, 50), !.bathers = q.bathers]

\* id is the fresh value of mkId()
addVesselFromQuickAdd(id) ==
  /\ version = "latest"
  /\ quickAdd.show
  /\ edits < budget
  /\ Len(vessels) < MaxVessels
  /\ \A i \in 1..Len(vessels) : vessels[i].id # id
  /\ vessels' = Append(vessels, quickAddVessel(quickAdd, packages, id))
  /\ quickAdd' = [quickAdd EXCEPT !.show = FALSE]
  /\ edits' = edits + 1
  /\ UNCHANGED <<version, constructionType, scope, opts, rate, packages>>
  /\ UNCHANGED <<vizVars, budget>>
  /\ Recompute

BatherInputs == {R(13)}

\* entries of the length, width and depth inputs, and of the name input
LengthInputs == {R(9)}

WidthInputs == {R(5)}

DepthInputs == {R(4)}

NameInputs == {<<"Spa", 1>>}

\* the patches of the vessel card taken in the runs of the vessel list: the
\* package selector and one entry of the length
ListPatches(v) ==
  {p \in Patches(version, v) :
     DOMAIN p = {"equipmentPackageKey"} \/ p = Patch("length_ft", R(4))}

\* a value of mkId() that no vessel of the list has
freshVesselId == Min({id \in 1..(Len(vessels) + 1) : \A i \in 1..Len(vessels) : vessels[i].id # id})

\* the calculator as it starts: two default vessels, the default catalog,
\* the dialog closed
InitVessels ==
  /\ version = "latest" /\ constructionType = "EPS" /\ scope = AllOn
  /\ opts = BaseOpts(version) /\ rate = BaseRate(version) /\ packages = Catalog
  /\ vessels = TwoVessels(version, "cp-1-2", "ht-standard")
  /\ edits = 0
  /\ calcs = Calcs(version, constructionType, scope, opts, rate, packages, vessels)
  /\ proj = Proj(version, constructionType, scope, opts, rate, vessels, calcs)
  /\ renderError = projectThrows(scope, rate)
  /\ VizIdle
  /\ quickAdd = QuickAddMounted
  /\ budget = MaxOps

NextVessels ==
  \/ \E t \in VesselTypes : openQuickAdd(t)
  \/ \E n \in BatherInputs : setQuickAddBathers(n)
  \/ \E x \in LengthInputs : setQuickAddLength(x)
  \/ \E x \in WidthInputs : setQuickAddWidth(x)
  \/ \E x \in DepthInputs : setQuickAddDepth(x)
  \/ \E nm \in NameInputs : setQuickAddName(nm)
  \/ closeQuickAdd
  \/ addVesselFromQuickAdd(freshVesselId)
  \/ \E i \in 1..Len(vessels) : duplicateVessel(vessels[i].id, freshVesselId)
  \/ \E i \in 1..Len(vessels) : removeVessel(vessels[i].id)
  \/ \E i \in 1..Len(vessels) : \E p \in ListPatches(vessels[i]) :
        updateVessel(vessels[i].id, p)

SpecVessels == InitVessels /\ [][NextVessels]_vars

(* ====================================================================== *)
(*                               properties                               *)
(* ====================================================================== *)
Rows == proj.perVesselRows

RowIdx == 1..Len(proj.perVesselRows)

\* Sum of a column of numbers indexed by 1..n (independent of the engine's reduce)
RECURSIVE Sigma(_, _)
Sigma(f, n) == IF n = 0 THEN R(0) ELSE Add(Sigma(f, n - 1), f[n])

SumDirect == Sigma([i \in 1..Len(calcs) |-> calcs[i].perVesselDirect], Len(calcs))

PooledCosts ==
  Add(Add(Add(Add(Add(proj.freightTotal, proj.designEngineering), proj.repFee),
              proj.startup), proj.chemStorage), proj.rigging)

SumPreContBase == Sigma([i \in RowIdx |-> Rows[i].preContBase], Len(Rows))

\* the configured warranty rate, as a fraction
WRate == Div(clampN(rate.warrantyPctOfClient), R(100))

\* C1 (as claimed): the per-vessel pre-contingency bases add up to the direct
\* costs plus all six pooled project costs reported in the project result.
C1_AllocationConservation == SumPreContBase = Add(SumDirect, PooledCosts)

\* C2 (as claimed): with the Warranty scope enabled and a warranty rate of
\* 100% or more, the recomputation reports a configuration error and no
\* clientTotal, warranty or clientPrice is Infinity or NaN.
C2_WarrantyDegeneracyReported ==
  (scope.scopeWarranty /\ Le(R(1), WRate)) =>
     /\ renderError
     /\ IsFinite(proj.clientPrice)
     /\ \A i \in RowIdx : IsFinite(Rows[i].clientTotal) /\ IsFinite(Rows[i].warranty)

\* the rollup totals of the result; the latest version reports the base as
\* constructionBase and passThroughTotal
RollupTotals ==
  {proj.freightTotal, proj.designEngineering, proj.repFee, proj.startup,
   proj.chemStorage, proj.rigging, proj.designContAmount,
   proj.wasteAmount, proj.ohpAmount, proj.warrantyReserve, proj.clientPrice,
   proj.grossMarginPct, proj.effectivePerSf}
  \cup (IF version = "first" THEN {proj.hardCostsBase}
        ELSE {proj.constructionBase, proj.passThroughTotal})

\* C3 (as claimed): with an empty vessel list and a warranty rate below 100%
\* nothing is thrown and every rollup total of the project result is 0.
C3_EmptyListAllZero ==
  (vessels = <<>> /\ (scope.scopeWarranty => Lt(WRate, R(1)))) =>
     (~renderError /\ RollupTotals = {R(0)})

Positive(x) == IsFinite(x) /\ x.n > 0

\* x < y and x <= y, by the sign of the difference of two finite values
Below(x, y) == IF IsFinite(x) /\ IsFinite(y) THEN Sub(x, y).n < 0 ELSE Lt(x, y)

AtMost(x, y) == ~IsNaN(x) /\ ~IsNaN(y) /\ ~Below(y, x)

\* C4: with the Warranty scope enabled and a warranty rate below 100%, every
\* vessel's warranty equals its clientTotal times the configured rate, so the
\* ratio warranty / clientTotal is the configured rate.
C4_WarrantyIdentity ==
  (scope.scopeWarranty /\ Lt(WRate, R(1))) =>
     \A i \in RowIdx :
        /\ Rows[i].warranty = Mul(Rows[i].clientTotal, WRate)
        /\ Positive(Rows[i].clientTotal) => Div(Rows[i].warranty, Rows[i].clientTotal) = WRate

\* the warranty rate was edited to 75% on a two-vessel project
C4_Witness ==
  /\ edits = 1 /\ rate.warrantyPctOfClient = R(75)
  /\ scope.scopeWarranty /\ Lt(R(0), WRate) /\ Lt(WRate, R(1))
  /\ Len(Rows) = 2
  /\ \A i \in RowIdx : Positive(Rows[i].clientTotal) /\ Positive(Rows[i].warranty)

SumDesignCont == Sigma([i \in RowIdx |-> Rows[i].designCont], Len(Rows))

\* C5: the per-vessel contingency amounts add up to the project contingency
\* amount (designContAmount).
C5_ContingencyConservation == SumDesignCont = proj.designContAmount

\* the contingency rate was edited to 75% on a two-vessel project whose
\* vessels take different shares
C5_Witness ==
  /\ edits = 1 /\ rate.designContPct = R(75)
  /\ Len(Rows) = 2
  /\ Positive(proj.designContAmount)
  /\ \A i \in RowIdx : Positive(Rows[i].designCont)
  /\ Rows[1].designCont # Rows[2].designCont

(* ----------------------------- cost buckets --------------------------- *)
MaterialsOf(c) ==
  [i \in 1..Len(c) |->
     IF version = "first"
     THEN Add(Add(c[i].materials.materialsEpsBundle, c[i].materials.materialsTile),
              c[i].materials.materialsFfe)
     ELSE materialsSubtotal(constructionType, c[i].materials)]

LaborOf(c) == [i \in 1..Len(c) |-> c[i].laborSubtotal]

\* the stainless steel quality control cost of the latest version
QualityControlOf(c) ==
  [i \in 1..Len(c) |-> IF version = "first" THEN R(0) ELSE c[i].qualityControlCost]

EquipmentOf(c) == [i \in 1..Len(c) |-> c[i].equipmentSubtotal]

AllZero(col) == \A i \in 1..Len(col) : col[i] = R(0)

\* The subtotals and pooled costs of a result, by name
BucketNames == {"materials", "labor", "equipment", "qualityControl", "freightTotal",
                "designEngineering", "repFee", "startup", "chemStorage", "rigging"}

PerVesselBuckets == {"materials", "labor", "equipment", "qualityControl"}

Bucket(b, c, p) ==
  CASE b = "materials" -> MaterialsOf(c)
    [] b = "labor" -> LaborOf(c)
    [] b = "equipment" -> EquipmentOf(c)
    [] b = "qualityControl" -> QualityControlOf(c)
    [] b = "freightTotal" -> p.freightTotal
    [] b = "designEngineering" -> p.designEngineering
    [] b = "repFee" -> p.repFee
    [] b = "startup" -> p.startup
    [] b = "chemStorage" -> p.chemStorage
    [] b = "rigging" -> p.rigging

IsZeroBucket(b, c, p) ==
  IF b \in PerVesselBuckets THEN AllZero(Bucket(b, c, p))
  ELSE Bucket(b, c, p) = R(0)

\* The bucket the spec associates with a scope flag
OwnBucket(k) ==
  CASE k = "scopeMaterials" -> {"materials"}
    [] k = "scopeLabor" -> {"labor"}
    [] k = "scopeEquipment" -> {"equipment"}
    [] k = "scopeFreight" -> {"freightTotal"}
    [] k = "scopeDesignEng" -> {"designEngineering"}
    [] OTHER -> {}

\* The pooled costs the code gates with the same flag
GatedWith(k) ==
  CASE k = "scopeLabor" -> {"labor", "qualityControl", "repFee", "startup", "rigging"}
    [] k = "scopeEquipment" -> {"equipment", "chemStorage"}
    [] OTHER -> OwnBucket(k)

\* the contingency and warranty columns are zero when their flag is off
MarkupZero(k, p) ==
  /\ k = "scopeDesignCont" =>
       (p.designContAmount = R(0) /\ \A i \in 1..Len(p.perVesselRows) : p.perVesselRows[i].designCont = R(0))
  /\ k = "scopeWarranty" =>
       (p.warrantyReserve = R(0) /\ \A i \in 1..Len(p.perVesselRows) : p.perVesselRows[i].warranty = R(0))

\* this step disables flag k and changes no other input
DisabledOnly(k) ==
  /\ scope[k]
  /\ scope' = [scope EXCEPT ![k] = FALSE]
  /\ UNCHANGED <<version, constructionType, opts, rate, packages, vessels>>

\* C6 (as claimed): disabling one scope flag makes its bucket 0 for every
\* vessel and leaves every other subtotal and pooled cost unchanged.
C6_ScopeZeroingOriginal ==
  [][\A k \in ScopeNames :
       DisabledOnly(k) =>
         /\ \A b \in OwnBucket(k) : IsZeroBucket(b, calcs', proj')
         /\ MarkupZero(k, proj')
         /\ \A b \in BucketNames \ OwnBucket(k) : Bucket(b, calcs', proj') = Bucket(b, calcs, proj)]_vars

\* C6 (amended): disabling one scope flag makes its bucket 0 for every vessel
\* and leaves every other subtotal and pooled cost unchanged, where the Labor
\* flag's bucket also holds repFee, startup, rigging and the stainless steel
\* quality control cost, and the Equipment flag's bucket also holds chemical
\* storage.
C6_ScopeZeroing ==
  [][\A k \in ScopeNames :
       DisabledOnly(k) =>
         /\ \A b \in GatedWith(k) : IsZeroBucket(b, calcs', proj')
         /\ MarkupZero(k, proj')
         /\ \A b \in BucketNames \ GatedWith(k) : Bucket(b, calcs', proj') = Bucket(b, calcs, proj)]_vars

\* a state reached by disabling exactly the Labor flag of a fully enabled
\* two-vessel project: labor and its pooled costs are 0, other buckets are not
C6_Witness ==
  /\ edits = 1
  /\ scope = [k \in ScopeNames |-> k # "scopeLabor"]
  /\ rate = BaseRate(version) /\ Len(vessels) = 2
  /\ \A b \in GatedWith("scopeLabor") : IsZeroBucket(b, calcs, proj)
  /\ \A i \in 1..Len(calcs) : Positive(MaterialsOf(calcs)[i])
  /\ Positive(proj.freightTotal) /\ Positive(proj.chemStorage)

(* ----------------------------- monotonicity --------------------------- *)
\* this step raises rate k and changes no other input
RaisedOnly(k) ==
  /\ Lt(rate[k], rate'[k])
  /\ rate' = [rate EXCEPT ![k] = rate'[k]]
  /\ UNCHANGED <<version, constructionType, scope, opts, packages, vessels>>

\* C7: raising a single rate (a warranty rate staying below 100%) with all
\* other inputs fixed never decreases clientPrice.
C7_Monotonicity ==
  [][\A k \in DOMAIN rate :
       (RaisedOnly(k) /\ (k = "warrantyPctOfClient" => Lt(rate'[k], R(100))))
          => AtMost(proj.clientPrice, proj'.clientPrice)]_vars

\* clientPrice of the same project at the base rates
BasePrice ==
  Proj(version, constructionType, scope, opts, BaseRate(version), vessels,
       Calcs(version, constructionType, scope, opts, BaseRate(version), packages,
             vessels)).clientPrice

\* a state reached by raising one rate above its base value, where the price
\* is strictly higher than at the base rates
C7_Witness ==
  /\ edits = 1
  /\ \E k \in DOMAIN rate :
        Lt(BaseValue(k), rate[k]) /\ rate = [BaseRate(version) EXCEPT ![k] = rate[k]]
  /\ IsFinite(proj.clientPrice) /\ Below(BasePrice, proj.clientPrice)

(* ------------------------------- rollups ------------------------------ *)
Column(f) == Sigma([i \in RowIdx |-> Rows[i][f]], Len(Rows))

\* the configured contingency rate, as a fraction
ContRate ==
  IF scope.scopeDesignCont THEN Div(clampN(rate.designContPct), R(100)) ELSE R(0)

\* the column the contingency is charged on
MarkedUpColumn == IF version = "first" THEN "preContBase" ELSE "construction"

\* C8: every project total is the sum of its per-vessel column: clientPrice,
\* OH&P (and profit), waste and warranty reserve; the pre-contingency base the
\* contingency is charged on is the sum of the per-vessel bases, and the
\* reported base totals are the sums of their columns.
C8_RollupConsistency ==
  /\ proj.clientPrice = Column("clientTotal")
  /\ proj.ohpAmount = Column("ohp")
  /\ proj.profit = Column("ohp")
  /\ proj.wasteAmount = Column("waste")
  /\ proj.warrantyReserve = Column("warranty")
  /\ proj.designContAmount = Mul(Column(MarkedUpColumn), ContRate)
  /\ IF version = "first"
     THEN proj.hardCostsBase = Add(Column("preContBase"), Column("designCont"))
     ELSE /\ proj.constructionBase = Add(Column("construction"), Column("designCont"))
          /\ proj.passThroughTotal = Column("passThrough")

\* after an edit, a two-vessel project with positive totals, each vessel
\* holding a part of the price
C8_Witness ==
  /\ edits = 1
  /\ Len(Rows) = 2
  /\ Positive(proj.clientPrice) /\ Positive(proj.ohpAmount) /\ Positive(proj.wasteAmount)
  /\ Positive(proj.warrantyReserve)
  /\ \A i \in RowIdx : Positive(Rows[i].clientTotal) /\ Below(Rows[i].clientTotal, proj.clientPrice)

(* ----------------------- client total decomposition ------------------- *)
PreWarranty(r) == Add(Add(Add(r.preContBase, r.designCont), r.waste), r.ohp)

\* C9: with preWarranty_i = basePlusCont_i + waste_i + ohp_i, clientTotal_i is
\* preWarranty_i / (1 - warrantyPct) when the Warranty scope is enabled and the
\* rate is below 100%, and preWarranty_i with warranty_i = 0 when the scope is
\* disabled; in both cases warranty_i = clientTotal_i - preWarranty_i.
C9_ClientTotalDecomposition ==
  \A i \in RowIdx :
    /\ (scope.scopeWarranty /\ Lt(WRate, R(1))) =>
          /\ Rows[i].clientTotal = Div(PreWarranty(Rows[i]), Sub(R(1), WRate))
          /\ Rows[i].warranty = Sub(Rows[i].clientTotal, PreWarranty(Rows[i]))
          /\ Rows[i].clientTotal = Add(PreWarranty(Rows[i]), Rows[i].warranty)
    /\ ~scope.scopeWarranty =>
          /\ Rows[i].clientTotal = PreWarranty(Rows[i])
          /\ Rows[i].warranty = R(0)

\* after an edit, every markup of every vessel is positive and the warranty
\* grosses the pre-warranty total up
C9_Witness ==
  /\ edits = 1
  /\ scope.scopeWarranty /\ Lt(R(0), WRate) /\ Lt(WRate, R(1))
  /\ Len(Rows) >= 1
  /\ \A i \in RowIdx :
       /\ Positive(Rows[i].designCont) /\ Positive(Rows[i].waste) /\ Positive(Rows[i].ohp)
       /\ Positive(Rows[i].warranty)
       /\ Below(PreWarranty(Rows[i]), Rows[i].clientTotal)

(* -------------------------- equipment resolution ---------------------- *)
\* the catalog packages with the vessel's key that apply to the vessel's type
Applicable(v) ==
  {i \in 1..Len(packages) :
     packages[i].key = v.equipmentPackageKey /\ v.type \in packages[i].appliesTo}

LineItemTotal(p) == Sigma([j \in 1..Len(p.items) |-> p.items[j].cost], Len(p.items))

\* C10: with the Equipment scope enabled, a vessel's equipment subtotal is the
\* line-item total of the package with the vessel's key that applies to the
\* vessel's type, and 0 (nothing thrown) when there is no such package.
C10_EquipmentResolution ==
  /\ ~renderError
  /\ Len(calcs) = Len(vessels)
  /\ \A i \in 1..Len(vessels) :
       /\ (scope.scopeEquipment /\ Applicable(vessels[i]) # {}) =>
             \A j \in Applicable(vessels[i]) :
                calcs[i].equipmentSubtotal = LineItemTotal(packages[j])
       /\ (scope.scopeEquipment /\ Applicable(vessels[i]) = {}) =>
             calcs[i].equipmentSubtotal = R(0)

\* a project with one vessel whose key names a package of the other type and
\* one whose key names no package (both resolve to 0), and a project whose
\* vessels resolve to priced packages
C10_Witness ==
  /\ edits = 1 /\ ~renderError
  /\ scope.scopeEquipment /\ Len(vessels) = 2
  /\ \E j \in 1..Len(packages) :
        packages[j].key = vessels[1].equipmentPackageKey /\ vessels[1].type \notin packages[j].appliesTo
  /\ \A j \in 1..Len(packages) : packages[j].key # vessels[2].equipmentPackageKey
  /\ calcs[1].equipmentSubtotal = R(0) /\ calcs[2].equipmentSubtotal = R(0)

(* ---------------------------- input clamping -------------------------- *)
\* the value 0 in place of a negative or non-finite input
Clamp0(x) == IF IsFinite(x) /\ x.n >= 0 THEN x ELSE R(0)

NumericVesselFields ==
  {"length_ft", "width_ft", "waterDepth_ft", "wallHeight_ft", "benchSf", "extraSf",
   "handrails", "jets", "benchLength_ft", "benchDepth_ft", "benchHeight_ft",
   "stepsWidth_ft", "stepsCount", "stepRiser_ft", "stepTread_ft", "bathers",
   "eps_wall_thickness_ft", "eps_floor_thickness_ft"}

\* the input snapshot with 0 supplied for every negative or non-finite number
ClampedRate == [k \in DOMAIN rate |-> Clamp0(rate[k])]

ClampedVessels ==
  [i \in 1..Len(vessels) |->
     [f \in DOMAIN vessels[i] |->
        IF f \in NumericVesselFields THEN Clamp0(vessels[i][f]) ELSE vessels[i][f]]]

ClampedPackages ==
  [p \in 1..Len(packages) |->
     [packages[p] EXCEPT !.items =
        [j \in 1..Len(packages[p].items) |->
           [packages[p].items[j] EXCEPT !.cost = Clamp0(@)]]]]

ClampedCalcs ==
  Calcs(version, constructionType, scope, opts, ClampedRate, ClampedPackages, ClampedVessels)

ClampedProj ==
  Proj(version, constructionType, scope, opts, ClampedRate, ClampedVessels, ClampedCalcs)

\* a per-vessel result without the vessel it echoes
Costs(c) == [f \in DOMAIN c \ {"vessel"} |-> c[f]]

NonNegative(x) == ~IsNaN(x) /\ x.n >= 0

SomeInputInvalid ==
  \/ \E k \in DOMAIN rate : rate[k] # Clamp0(rate[k])
  \/ vessels # ClampedVessels
  \/ packages # ClampedPackages

\* C11 (as claimed): a negative or non-finite geometry, count, rate or
\* line-item input gives exactly the results that 0 gives for that input,
\* nothing is thrown, and every cost of the results is >= 0.
C11_InputClamping ==
  /\ ~renderError
  /\ SomeInputInvalid =>
       /\ \A i \in 1..Len(calcs) : Costs(calcs[i]) = Costs(ClampedCalcs[i])
       /\ proj = ClampedProj
  /\ \A i \in 1..Len(calcs) :
       NonNegative(calcs[i].perVesselDirect) /\ NonNegative(calcs[i].laborSubtotal)
  /\ \A i \in RowIdx : NonNegative(Rows[i].clientTotal)
  /\ NonNegative(proj.clientPrice)

\* C11 restricted to finite inputs: negative values behave as 0
C11_FiniteInputsClamped ==
  (\A i \in 1..Len(vessels) : IsFinite(vessels[i].jets)) => C11_InputClamping

(* --------------------- determinism and immutability ------------------- *)
\* the two memos computed afresh from the input snapshot of the state
Recomputed ==
  LET vc == IF version = "first" THEN vesselCalcs(scope, rate, packages, vessels)
            ELSE vesselCalcsLatest(scope, opts, rate, constructionType, packages, vessels)
  IN [calcs |-> vc,
      proj  |-> IF version = "first" THEN project(scope, opts, rate, vessels, vc)
                ELSE projectLatest(scope, opts, rate, constructionType, vessels, vc)]

\* C12: computing vesselCalcs and project again on the input snapshot of a
\* state gives exactly the results the state holds, and the computation has
\* changed no input: every result echoes its vessel with every field as it
\* is in the vessel list, one result per vessel, in order.
C12_Determinism ==
  /\ calcs = Recomputed.calcs
  /\ proj = Recomputed.proj
  /\ Len(calcs) = Len(vessels)
  /\ \A i \in 1..Len(vessels) : calcs[i].vessel = vessels[i]

\* a recomputation after an edit of the package catalog, with two vessels
C12_Witness ==
  /\ edits > 0
  /\ packages # Catalog
  /\ Len(vessels) = 2
  /\ Positive(proj.clientPrice)

(* ---------------------- contingency base and shares ------------------- *)
\* the pooled costs that enter the base the contingency is charged on: all
\* six in the first version, startup and chemical storage in the latest
PooledInBase ==
  IF version = "first" THEN PooledCosts ELSE Add(proj.startup, proj.chemStorage)

\* the per-vessel amount the contingency is charged on
ContBase(r) == r[MarkedUpColumn]

BasePlusCont(r) == Add(ContBase(r), r.designCont)

\* C13 (as claimed): the contingency amount is the sum of the per-vessel
\* pre-contingency bases (direct cost plus every allocated pooled cost) times
\* the contingency rate, 0 when the Design Contingency scope is disabled, and
\* each vessel's contingency is its share preContBase_i / sum of that amount.
C13_ContingencyOnFullBase ==
  /\ proj.designContAmount = Mul(SumPreContBase, ContRate)
  /\ ~scope.scopeDesignCont => proj.designContAmount = R(0)
  /\ Positive(SumPreContBase) =>
       \A i \in RowIdx :
         Rows[i].designCont =
           Mul(Div(Rows[i].preContBase, SumPreContBase), proj.designContAmount)

\* C13 (amended): the contingency amount is the sum of the per-vessel bases
\* times the contingency rate, where the base is the full pre-contingency
\* base in the first version and the construction cost (direct cost plus
\* allocated startup and chemical storage) in the latest; it is 0 when the
\* Design Contingency scope is disabled; each vessel's contingency is its
\* share base_i / sum of the amount (0 when the sum is 0); and the base after
\* contingency is the sum of base_i + cont_i.
C13_ContingencyShares ==
  /\ proj.designContAmount = Mul(Column(MarkedUpColumn), ContRate)
  /\ Positive(SumDirect) =>
       proj.designContAmount = Mul(Add(SumDirect, PooledInBase), ContRate)
  /\ ~scope.scopeDesignCont =>
       /\ proj.designContAmount = R(0)
       /\ \A i \in RowIdx : Rows[i].designCont = R(0)
  /\ \A i \in RowIdx :
       Rows[i].designCont =
         IF Positive(Column(MarkedUpColumn))
         THEN Mul(Div(ContBase(Rows[i]), Column(MarkedUpColumn)), proj.designContAmount)
         ELSE R(0)
  /\ (IF version = "first" THEN proj.hardCostsBase ELSE proj.constructionBase)
       = Sigma([i \in RowIdx |-> BasePlusCont(Rows[i])], Len(Rows))

\* the contingency rate was edited to 75% on a two-vessel project with pooled
\* costs in the base and unequal shares
C13_Witness ==
  /\ edits = 1 /\ rate.designContPct = R(75) /\ scope.scopeDesignCont
  /\ Len(Rows) = 2
  /\ Positive(PooledInBase)
  /\ proj.designContAmount = Mul(Add(SumDirect, PooledInBase), Q(3, 4))
  /\ Below(Rows[1].designCont, Rows[2].designCont)

(* ---------------------------- waste and OH&P -------------------------- *)
WasteRate == Div(clampN(rate.wastePct), R(100))

OhpRate == Div(clampN(rate.ohpPct), R(100))

\* C14 (as claimed): waste and OH&P of a vessel are its base after
\* contingency (direct cost, every allocated pooled cost and contingency)
\* times the waste and the OH&P rate, under every scope-flag combination.
C14_MarkupsOnFullBase ==
  \A i \in RowIdx :
    /\ Rows[i].waste = Mul(Add(Rows[i].preContBase, Rows[i].designCont), WasteRate)
    /\ Rows[i].ohp = Mul(Add(Rows[i].preContBase, Rows[i].designCont), OhpRate)

\* C14 (amended): waste and OH&P of a vessel are its base after contingency
\* times the waste and the OH&P rate under every scope-flag combination,
\* where the base is the full pre-contingency base in the first version and
\* the construction cost in the latest, whose pass-through costs carry
\* neither.
C14_WasteAndOhp ==
  /\ \A i \in RowIdx :
       /\ Rows[i].waste = Mul(BasePlusCont(Rows[i]), WasteRate)
       /\ Rows[i].ohp = Mul(BasePlusCont(Rows[i]), OhpRate)
  /\ Positive(SumDirect) =>
       /\ proj.wasteAmount =
            Mul(Add(Add(SumDirect, PooledInBase), proj.designContAmount), WasteRate)
       /\ proj.ohpAmount =
            Mul(Add(Add(SumDirect, PooledInBase), proj.designContAmount), OhpRate)

\* a scope flag or a rate was changed, and every vessel carries contingency,
\* waste and OH&P, each above 0 and waste different from OH&P
C14_Witness ==
  /\ edits = 1
  /\ Len(Rows) = 2
  /\ Positive(PooledInBase)
  /\ \A i \in RowIdx :
       /\ Positive(Rows[i].designCont) /\ Positive(Rows[i].waste) /\ Positive(Rows[i].ohp)
       /\ Rows[i].waste # Rows[i].ohp

(* --------------------------- pooled cost formulas --------------------- *)
PooledNames == {"freightTotal", "designEngineering", "repFee", "startup", "chemStorage", "rigging"}

VesselCount == R(Len(vessels))

FreightFormula ==
  Mul(Add(Mul(Clamp0(rate.miles), Clamp0(rate.dollarsPerMile)),
          Mul(VesselCount, Clamp0(rate.handlingPerVessel))),
      Clamp0(rate.regionMult))

Gated(flag, x) == IF flag THEN x ELSE R(0)

FreightAndDesignFormulas ==
  /\ proj.freightTotal = Gated(scope.scopeFreight, FreightFormula)
  /\ proj.designEngineering =
       Gated(scope.scopeDesignEng, Mul(Clamp0(rate.designBase), Clamp0(rate.designMult)))

\* the pooled costs a step changes
PooledChanged == {b \in PooledNames : proj'[b] # proj[b]}

\* C15 (as claimed): freight and design/engineering follow their formulas
\* when their scope is enabled and are 0 otherwise; rigging is the per-vessel
\* charge times the vessel count and repFee, startup and chemical storage are
\* the configured values; and each pooled cost has a scope flag of its own,
\* so that disabling one flag changes at most one pooled cost.
C15_PooledIndependentlyGated ==
  /\ [](FreightAndDesignFormulas
         /\ proj.rigging \in {R(0), Mul(Clamp0(rate.riggingPerVessel), VesselCount)}
         /\ proj.repFee \in {R(0), Clamp0(rate.repOnsiteFee)}
         /\ proj.startup \in {R(0), Clamp0(rate.startupLump)}
         /\ proj.chemStorage \in {R(0), Clamp0(rate.projectChemicalStorageCost)})
  /\ [][\A k \in ScopeNames : DisabledOnly(k) => Cardinality(PooledChanged) <= 1]_vars

\* C15 (amended): freight and design/engineering follow their formulas when
\* their scope is enabled and are 0 otherwise; repFee and startup are the
\* configured values when the Labor scope is enabled and 0 otherwise; rigging
\* is the per-vessel charge times the vessel count when the Labor scope and
\* the rigging option are both enabled and 0 otherwise; chemical storage is
\* the configured value when the Equipment scope and the project chemical
\* storage option are both enabled and 0 otherwise.
C15_PooledCostFormulas ==
  /\ FreightAndDesignFormulas
  /\ proj.repFee = Gated(scope.scopeLabor, Clamp0(rate.repOnsiteFee))
  /\ proj.startup = Gated(scope.scopeLabor, Clamp0(rate.startupLump))
  /\ proj.rigging = Gated(scope.scopeLabor /\ opts.includeRigging,
                          Mul(Clamp0(rate.riggingPerVessel), VesselCount))
  /\ proj.chemStorage = Gated(scope.scopeEquipment /\ opts.useProjectChemicalStorage,
                              Clamp0(rate.projectChemicalStorageCost))

\* the Freight scope was disabled on a two-vessel project: freight is 0,
\* the other pooled costs are charged, rigging for two vessels
C15_Witness ==
  /\ edits = 1
  /\ ~scope.scopeFreight /\ proj.freightTotal = R(0)
  /\ Len(vessels) = 2
  /\ Positive(proj.designEngineering) /\ Positive(proj.repFee) /\ Positive(proj.startup)
  /\ Positive(proj.chemStorage)
  /\ Positive(proj.rigging) /\ proj.rigging = Mul(rate.riggingPerVessel, R(2))

(* ------------------------ conditional labor add-ons ------------------- *)
\* the labor subtotal of the vessel v under the rate card rt, every other
\* input as in the state
LaborWith(v, rt) ==
  Calcs(version, constructionType, scope, opts, rt, packages, <<v>>)[1].laborSubtotal

Refrigerated(v) == v.type = "Cold Plunge" /\ v.refrigerationLine

\* 100 per jet above the baseline of 6
JetCharge(v) == IF Below(R(6), v.jets) THEN Mul(Sub(v.jets, R(6)), R(100)) ELSE R(0)

\* the part of vessel i's labor subtotal that is due to its refrigeration flag
RefrigerationPart(i) ==
  Sub(LaborOf(calcs)[i], LaborWith([vessels[i] EXCEPT !.refrigerationLine = FALSE], rate))

\* the part of vessel i's labor subtotal that is due to its jets
JetPart(i) == Sub(LaborOf(calcs)[i], LaborWith([vessels[i] EXCEPT !.jets = R(0)], rate))

\* vessel i's labor subtotal at a regional multiplier of m
LaborAtMultiplier(i, m) == LaborWith(vessels[i], [rate EXCEPT !.regionMult = m])

LaborAtUnitMultiplier(i) == LaborAtMultiplier(i, R(1))

\* multipliers the labor subtotal is compared at
Multipliers == {R(0), R(4)}

\* the add-ons are charged: Labor scope on, and construction flag on
AddOns(charged) ==
  \A i \in 1..Len(vessels) :
    /\ RefrigerationPart(i) =
         Gated(charged /\ Refrigerated(vessels[i]),
               Mul(Clamp0(rate.refrigLinePerCP), Clamp0(rate.regionMult)))
    /\ JetPart(i) =
         Gated(charged /\ vessels[i].type = "Hot Tub",
               Mul(JetCharge(vessels[i]), Clamp0(rate.regionMult)))

\* C16 (as claimed): the refrigeration-line charge is in a vessel's labor
\* subtotal only for a Cold Plunge with its refrigeration flag set; the
\* per-jet charge only for a Hot Tub, and then is 100 x max(0, jets - 6); the
\* whole labor subtotal is multiplied by the regional multiplier and is 0
\* when the Labor scope is disabled.
C16_LaborAddOnsEverywhere ==
  /\ AddOns(scope.scopeLabor)
  /\ \A i \in 1..Len(vessels) :
       LET unit == LaborAtUnitMultiplier(i)
       IN /\ LaborOf(calcs)[i] = Mul(unit, Clamp0(rate.regionMult))
          /\ \A m \in Multipliers : LaborAtMultiplier(i, m) = Mul(unit, m)
          /\ ~scope.scopeLabor => LaborOf(calcs)[i] = R(0)

\* EPS construction: the first version, and the latest with EPS selected
IsEps == version = "first" \/ constructionType = "EPS"

\* C16 (amended): in EPS construction the refrigeration-line charge is in a
\* vessel's labor subtotal only for a Cold Plunge with its refrigeration flag
\* set, the per-jet charge only for a Hot Tub, and then is 100 x max(0, jets -
\* 6), and the whole labor subtotal is multiplied by the regional multiplier;
\* in stainless steel construction neither add-on is charged and the labor
\* subtotal does not depend on the regional multiplier; the labor subtotal
\* is 0 when the Labor scope is disabled.
C16_LaborAddOns ==
  /\ AddOns(scope.scopeLabor /\ IsEps)
  /\ \A i \in 1..Len(vessels) :
       LET unit == LaborAtUnitMultiplier(i)
       IN /\ LaborOf(calcs)[i] =
               IF IsEps THEN Mul(unit, Clamp0(rate.regionMult)) ELSE unit
          /\ \A m \in Multipliers :
               LaborAtMultiplier(i, m) = IF IsEps THEN Mul(unit, m) ELSE unit
          /\ ~scope.scopeLabor => LaborOf(calcs)[i] = R(0)

\* the jets of the hot tub were set to 8, next to a cold plunge with a
\* refrigeration line: both add-ons are charged
C16_Witness ==
  /\ edits = 1 /\ scope.scopeLabor /\ IsEps
  /\ Len(vessels) = 2
  /\ Refrigerated(vessels[1]) /\ Positive(RefrigerationPart(1)) /\ JetPart(1) = R(0)
  /\ vessels[2].type = "Hot Tub" /\ vessels[2].jets = R(8)
  /\ JetPart(2) = R(200) /\ RefrigerationPart(2) = R(0)

(* -------------------------------- geometry ---------------------------- *)
\* bench area of a vessel: the entered area in the first version; top, front
\* and two sides of the bench in the latest, 0 when the bench is not enabled
BenchArea(v) ==
  IF version = "first" THEN Clamp0(v.benchSf)
  ELSE IF ~v.hasBench THEN R(0)
  ELSE LET bL == Clamp0(v.benchLength_ft)
           bD == Clamp0(v.benchDepth_ft)
           bH == Clamp0(v.benchHeight_ft)
       IN  Add(Add(Mul(bL, bD), Mul(bL, bH)), Mul(Mul(R(2), bD), bH))

\* the number of steps: rounded half up, at least 1
StepCount(v) ==
  LET c == Clamp0(v.stepsCount)
      n == (2 * c.n + c.d) \div (2 * c.d)
  IN  IF n < 1 THEN R(1) ELSE R(n)

\* step area of a vessel: the entered extra area in the first version;
\* treads, risers and two triangular side faces in the latest, 0 when the
\* steps are not enabled
StepArea(v) ==
  IF version = "first" THEN Clamp0(v.extraSf)
  ELSE IF ~v.hasSteps THEN R(0)
  ELSE LET sW == Clamp0(v.stepsWidth_ft)
           sH == Clamp0(v.stepRiser_ft)
           sD == Clamp0(v.stepTread_ft)
           sN == StepCount(v)
       IN  Add(Add(Mul(Mul(sW, sD), sN), Mul(Mul(sW, sH), sN)),
               Mul(Mul(Mul(sN, sN), sH), sD))

FloorArea(v) == Mul(Clamp0(v.length_ft), Clamp0(v.width_ft))

WallArea(v) ==
  Mul(Mul(R(2), Add(Clamp0(v.length_ft), Clamp0(v.width_ft))), Clamp0(v.waterDepth_ft))

GeometryOf(c) ==
  /\ c.areas.floorSf = FloorArea(c.vessel)
  /\ c.areas.wallSf = WallArea(c.vessel)
  /\ IF version = "first"
     THEN c.areas.benchSf = BenchArea(c.vessel) /\ c.areas.extraSf = StepArea(c.vessel)
     ELSE c.areas.benchSf = Add(BenchArea(c.vessel), StepArea(c.vessel))
  /\ c.areas.finishSf =
       Add(Add(Add(FloorArea(c.vessel), WallArea(c.vessel)), BenchArea(c.vessel)),
           StepArea(c.vessel))

\* the 10 x 3 x 3.5 ft cold plunge of the scenario, without bench or steps
ScenarioVessel ==
  IF version = "first"
  THEN mkVessel(1, "Cold Plunge", <<"CP", 1>>, R(10), R(3), Q(7, 2), R(0), R(0), FALSE, R(0),
                "cp-1-2")
  ELSE mkVesselLatest(1, "Cold Plunge", <<"CP", 1>>, R(10), R(3), Q(7, 2), R(0), FALSE, R(0),
                      "cp-1-2", FALSE, R(3), Q(3, 2))

ScenarioCalc ==
  Calcs(version, constructionType, scope, opts, rate, packages, <<ScenarioVessel>>)[1]

\* C17: for every vessel floorArea = length x width, wallArea = 2 x (length +
\* width) x waterDepth, benchArea and stepArea are 0 when their feature is not
\* enabled, and finishArea = floorArea + wallArea + benchArea + stepArea; the
\* 10 x 3 x 3.5 ft vessel without bench or steps has finishArea 121.
C17_Geometry ==
  /\ \A i \in 1..Len(calcs) : GeometryOf(calcs[i])
  /\ GeometryOf(ScenarioCalc)
  /\ ScenarioCalc.areas.floorSf = R(30)
  /\ ScenarioCalc.areas.wallSf = R(91)
  /\ ScenarioCalc.areas.benchSf = R(0)
  /\ ScenarioCalc.areas.finishSf = R(121)

\* the steps of a hot tub with a bench were enabled: its finish area holds
\* floor, walls, bench and steps, and the cold plunge beside it has neither
C17_Witness ==
  /\ edits = 1 /\ version = "latest"
  /\ Len(vessels) = 2
  /\ vessels[2].hasBench /\ vessels[2].hasSteps
  /\ Positive(BenchArea(vessels[2])) /\ Positive(StepArea(vessels[2]))
  /\ Below(Add(FloorArea(vessels[2]), WallArea(vessels[2])), calcs[2].areas.finishSf)
  /\ ~vessels[1].hasBench /\ ~vessels[1].hasSteps /\ calcs[1].areas.benchSf = R(0)

(* ----------------------- regional multiplier scope -------------------- *)
\* this step changes the regional multiplier and no other input
RegionMultOnly ==
  /\ rate'.regionMult # rate.regionMult
  /\ rate' = [rate EXCEPT !.regionMult = rate'.regionMult]
  /\ UNCHANGED <<version, constructionType, scope, opts, packages, vessels>>

\* the subtotals and pooled costs the regional multiplier has no part in
UnscaledBuckets == BucketNames \ {"labor", "freightTotal"}

\* y is to x as the multiplier after the step is to the multiplier before
ScaledWithMultiplier(x, y) ==
  Mul(y, Clamp0(rate.regionMult)) = Mul(x, Clamp0(rate'.regionMult))

\* C18: a step that changes only the regional multiplier leaves every
\* vessel's materials and equipment subtotal and the pooled
\* designEngineering, repFee, startup, chemStorage and rigging unchanged;
\* every labor subtotal and freightTotal change in proportion to the
\* multiplier.
C18_RegionalMultiplierScope ==
  [][RegionMultOnly =>
       /\ \A b \in UnscaledBuckets : Bucket(b, calcs', proj') = Bucket(b, calcs, proj)
       /\ \A i \in 1..Len(calcs) : ScaledWithMultiplier(LaborOf(calcs)[i], LaborOf(calcs')[i])
       /\ ScaledWithMultiplier(proj.freightTotal, proj'.freightTotal)]_vars

\* the multiplier was raised from 1 to 4 on a two-vessel project: labor and
\* freight are four times what they are at 1, and materials are charged
C18_Witness ==
  /\ edits = 1 /\ rate = [BaseRate(version) EXCEPT !.regionMult = R(4)]
  /\ Len(vessels) = 2
  /\ \A i \in 1..Len(calcs) :
       /\ Positive(LaborOf(calcs)[i])
       /\ LaborOf(calcs)[i] = Mul(LaborAtUnitMultiplier(i), R(4))
       /\ Positive(MaterialsOf(calcs)[i])
  /\ Positive(proj.freightTotal)
  /\ proj.freightTotal = Mul(R(4), Add(Mul(rate.miles, rate.dollarsPerMile),
                                       Mul(R(2), rate.handlingPerVessel)))

(* --------------------------- pass-through costs ----------------------- *)
\* freight, rigging, design/engineering and rep fee
PassThroughCosts ==
  Add(Add(Add(proj.freightTotal, proj.rigging), proj.designEngineering), proj.repFee)

\* the configured warranty rate in effect
WarrantyRate == IF scope.scopeWarranty THEN WRate ELSE R(0)

\* (construction_i + cont_i) x (1 + wasteRate + ohpRate) + passThrough_i
PreWarrantyLatest(r) ==
  Add(Mul(Add(r.construction, r.designCont), Add(Add(R(1), WasteRate), OhpRate)),
      r.passThrough)

PassThroughSeparated ==
  /\ proj.designContAmount = Mul(Column("construction"), ContRate)
  /\ proj.passThroughTotal = Column("passThrough")
  /\ Positive(SumDirect) =>
       /\ Column("construction") = Add(SumDirect, Add(proj.startup, proj.chemStorage))
       /\ Column("passThrough") = PassThroughCosts
  /\ \A i \in RowIdx :
       /\ Rows[i].waste = Mul(Add(Rows[i].construction, Rows[i].designCont), WasteRate)
       /\ Rows[i].ohp = Mul(Add(Rows[i].construction, Rows[i].designCont), OhpRate)
       /\ Below(WarrantyRate, R(1)) =>
            Sub(Rows[i].clientTotal, Rows[i].warranty) = PreWarrantyLatest(Rows[i])

\* this step changes the contingency, waste or OH&P percentage and no other input
MarkupPctOnly ==
  /\ \E k \in {"designContPct", "wastePct", "ohpPct"} :
       rate'[k] # rate[k] /\ rate' = [rate EXCEPT ![k] = rate'[k]]
  /\ UNCHANGED <<version, constructionType, scope, opts, packages, vessels>>

\* C19: in the latest version the contingency is charged on the construction
\* costs (direct cost plus allocated startup and chemical storage), waste and
\* OH&P on construction plus contingency, each vessel's pre-warranty total is
\* (construction_i + cont_i) x (1 + wasteRate + ohpRate) + passThrough_i, and a
\* change of the contingency, waste or OH&P percentage leaves every vessel's
\* pass-through portion (freight, rigging, design/engineering, rep fee) as
\* it was.
C19_PassThroughUnmarked ==
  /\ [](version = "latest" => PassThroughSeparated)
  /\ [][(version = "latest" /\ MarkupPctOnly) =>
          /\ proj'.passThroughTotal = proj.passThroughTotal
          /\ \A i \in RowIdx : Rows[i].passThrough = proj'.perVesselRows[i].passThrough]_vars

\* the contingency, waste or OH&P percentage of a two-vessel project of the
\* latest version was changed: every vessel holds pass-through costs,
\* contingency, waste and OH&P
C19_Witness ==
  /\ version = "latest" /\ edits = 1
  /\ \E k \in {"designContPct", "wastePct", "ohpPct"} :
       rate = [BaseRate(version) EXCEPT ![k] = R(75)]
  /\ Len(Rows) = 2
  /\ Positive(PassThroughCosts)
  /\ \A i \in RowIdx :
       /\ Positive(Rows[i].passThrough) /\ Positive(Rows[i].designCont)
       /\ Positive(Rows[i].waste) /\ Positive(Rows[i].ohp)
       /\ Sub(Rows[i].clientTotal, Rows[i].warranty) = PreWarrantyLatest(Rows[i])

(* ----------------------- visualization hand-over ---------------------- *)
\* the card's vessel holds the lists of the visualization as they are after
\* the step, and the two flags say whether each list has an element
HandedOverAfterStep ==
  /\ "benches" \in DOMAIN vessels'[VizIndex] /\ "steps" \in DOMAIN vessels'[VizIndex]
  /\ vessels'[VizIndex].benches = benches'
  /\ vessels'[VizIndex].steps = steps'
  /\ vessels'[VizIndex].hasBench = (Len(benches') > 0)
  /\ vessels'[VizIndex].hasSteps = (Len(steps') > 0)

\* C20 (as claimed): after rotateElement, duplicateElement, deleteElement,
\* toggleAutoSize, updateSelectedElement and the end of a drag, the update
\* handed to onVesselUpdate holds the benches and steps lists as they are
\* after the operation, hasBench is true exactly when that benches list is
\* not empty and hasSteps exactly when that steps list is not empty.
C20_SyncAfterOperation ==
  [][(\/ rotateElement
      \/ duplicateElement
      \/ deleteElement
      \/ toggleAutoSize
      \/ \E u \in ElementUpdates(selectedElement.type) : updateSelectedElement(u)
      \/ handleMouseUp) => HandedOverAfterStep]_vars

\* the end of a drag hands over the lists as the drag left them
C20_DragEndSynced == [][handleMouseUp => HandedOverAfterStep]_vars

(* ------------------------ package applicability ---------------------- *)
\* C21: from the default vessels and catalog, after any sequence of
\* quick-add, duplicate, remove, vessel-field update and package-selection
\* operations of the latest calculator, every vessel's equipmentPackageKey
\* names a catalog package that applies to the vessel's type, so that the
\* vessel's equipment subtotal is that package's line-item total and not the
\* 0 of an unresolved key.
C21_PackageApplicability ==
  \A i \in 1..Len(vessels) :
    /\ Applicable(vessels[i]) # {}
    /\ scope.scopeEquipment =>
         calcs[i].equipmentSubtotal = LineItemTotal(packages[Min(Applicable(vessels[i]))])

\* a hot tub came from the quick-add dialog, and the package of the cold
\* plunge was selected anew
C21_Witness ==
  /\ Len(vessels) = 3
  /\ vessels[3].type = "Hot Tub" /\ vessels[3].bathers = R(6) /\ ~vessels[3].collapsed
  /\ vessels[3].equipmentPackageKey = "ht-standard"
  /\ vessels[1].equipmentPackageKey = "cp-3-4"
  /\ Positive(calcs[3].equipmentSubtotal)

(* ----------------------------- scope breakdown ------------------------ *)
\* the breakdown of the state's project
Breakdown == scopeBreakdown(calcs, proj)

\* the four consolidated categories
Categories == {"vesselAndInstall", "equipmentAndInstall", "freightHandling", "designEngineering"}

\* the field f (cost or pct) added up over the categories of the breakdown b
CategorySum(b, f) ==
  Add(Add(Add(b.vesselAndInstall[f], b.equipmentAndInstall[f]), b.freightHandling[f]),
      b.designEngineering[f])

\* C22: in the latest calculator, whenever scopeBreakdown is not null and the
\* warranty rate is below 100%, the costs of the four consolidated categories
\* add up to clientPrice and their percentages add up to 100.
C22_ScopeBreakdownConservation ==
  (version = "latest" /\ Positive(proj.clientPrice) /\ Below(WarrantyRate, R(1))) =>
     LET b == Breakdown
     IN  /\ b # <<>>
         /\ CategorySum(b[1], "cost") = proj.clientPrice
         /\ CategorySum(b[1], "pct") = R(100)

\* a rate or scope was changed, and every category has a cost of its own,
\* warranty included
C22_Witness ==
  /\ version = "latest" /\ edits = 1
  /\ Positive(proj.clientPrice) /\ Positive(proj.warrantyReserve)
  /\ Positive(proj.designContAmount)
  /\ LET b == Breakdown
     IN  b # <<>> /\ \A c \in Categories : Positive(b[1][c].cost) /\ Below(b[1][c].pct, R(100))

(* ---------------------------- order independence --------------------- *)
\* the orders of n vessels other than the one they are in
Reorderings(n) == Permutations(1..n) \ {[i \in 1..n |-> i]}

\* the project of the vessel list vs, every other input as in the state
ProjectOf(vs) ==
  Proj(version, constructionType, scope, opts, rate, vs,
       Calcs(version, constructionType, scope, opts, rate, packages, vs))

\* a project result without its per-vessel table
Rollups(p) == [f \in DOMAIN p \ {"perVesselRows"} |-> p[f]]

\* C23: permuting the vessel list leaves every project rollup (pooled costs,
\* contingency, waste, OH&P, warranty reserve, clientPrice and the other
\* totals) unchanged and gives each vessel the per-vessel row (preContBase,
\* contingency, waste, OH&P, warranty, clientTotal) it had before.
C23_OrderIndependence ==
  \A f \in Reorderings(Len(vessels)) :
    LET p == ProjectOf([i \in 1..Len(vessels) |-> vessels[f[i]]])
    IN  /\ Rollups(p) = Rollups(proj)
        /\ Len(p.perVesselRows) = Len(vessels)
        /\ \A i \in 1..Len(vessels) : p.perVesselRows[i] = proj.perVesselRows[f[i]]

\* three vessels after an edit, no two with the same client total
C23_Witness ==
  /\ edits = 1 /\ Len(vessels) = 3 /\ ~renderError
  /\ Positive(proj.clientPrice)
  /\ \A i, j \in 1..3 : i # j => Rows[i].clientTotal # Rows[j].clientTotal

(* --------------------------- footprint containment -------------------- *)
\* the element e lies inside the footprint of the vessel v in plan
Inside(e, v) ==
  LET dims == getRotatedDimensions(e, e.rotation)
  IN  /\ AtMost(R(0), e.x) /\ AtMost(R(0), e.y)
      /\ AtMost(Add(e.x, dims.width), VizDims(v).L)
      /\ AtMost(Add(e.y, dims.depth), VizDims(v).W)

AllInside ==
  \A e \in Range(benches) \cup Range(steps) : Inside(e, vessels[VizIndex])

AllInsideAfterStep ==
  \A e \in Range(benches') \cup Range(steps') : Inside(e, vessels'[VizIndex])

\* a drag in plan view
PlanDrag == viewMode = "plan" /\ \E pos \in Positions : handleMouseMove(pos)

\* C24 (as claimed): with every bench and steps element inside the vessel
\* footprint (0 <= x, 0 <= y, x + rotated width <= vessel length, y + rotated
\* depth <= vessel width), a drag in plan view, a rotation or a duplication
\* leaves every element inside the footprint.
C24_FootprintContainment ==
  [][(AllInside /\ (PlanDrag \/ rotateElement \/ duplicateElement)) => AllInsideAfterStep]_vars

\* a drag in plan view alone keeps every element inside the footprint
C24_PlanDragContained == [][(AllInside /\ PlanDrag) => AllInsideAfterStep]_vars

(* ------------------------------- auto-size --------------------------- *)
\* the steps element e has the sizes calculateAutoSizeSteps gives for its rotation
AutoSized(e, v) ==
  LET a == calculateAutoSizeSteps(v, e.rotation)
  IN  /\ e.count = a.count /\ e.riser_ft = a.riser_ft
      /\ e.tread_ft = a.tread_ft /\ e.width_ft = a.width_ft

\* the steps elements with the selected id are not auto-sized after the step
SelectedStepsManual ==
  \A i \in 1..Len(steps') : steps'[i].id = selectedElement.id => ~steps'[i].autoSize

\* C25: with the vessel dimensions fixed, in every state reached by
\* toggleAutoSize, rotateElement, updateSelectedElement, duplicateElement and
\* drags, every steps element with autoSize = true has the count, riser,
\* tread and width of calculateAutoSizeSteps for its rotation; a manual edit
\* of a steps element leaves it with autoSize = false, and the copy a
\* duplication appends has autoSize = false.
C25_AutoSizeConsistency ==
  /\ [](\A e \in Range(steps) : e.autoSize => AutoSized(e, vessels[VizIndex]))
  /\ [][(selectedElement.type = "steps"
          /\ \E u \in ElementUpdates("steps") : updateSelectedElement(u))
        => SelectedStepsManual]_vars
  /\ [][(selectedElement.type = "steps" /\ duplicateElement /\ Len(steps') > Len(steps))
        => ~steps'[Len(steps')].autoSize]_vars

\* auto-sized steps that were turned to face E or W: their width is a third
\* of the vessel's width
C25_Witness ==
  \E e \in Range(steps) :
    /\ e.autoSize /\ e.rotation \in {"E", "W"}
    /\ e.width_ft = Mul(VizDims(vessels[VizIndex]).W, Q(33, 100))
    /\ e.width_ft # Mul(VizDims(vessels[VizIndex]).L, Q(33, 100))

(* ----------------------------- rotation cycle ------------------------- *)
\* one step clockwise in N, E, S, W
Clockwise == [N |-> "E", E |-> "S", S |-> "W", W |-> "N"]

IsAutoSized(e) == "autoSize" \in DOMAIN e /\ e.autoSize

\* the list after of one kind is the list before with the element of the
\* given id turned one step clockwise, everything else as it was
OnlyTurned(before, after, id) ==
  /\ Len(after) = Len(before)
  /\ \A i \in 1..Len(before) :
       IF before[i].id = id
       THEN /\ after[i].rotation = Clockwise[before[i].rotation]
            /\ ~IsAutoSized(before[i])
                 => after[i] = [before[i] EXCEPT !.rotation = Clockwise[before[i].rotation]]
       ELSE after[i] = before[i]

\* e after four presses of Rotate
FourTurns(e, v) == rotated(rotated(rotated(rotated(e, v), v), v), v)

\* C26: rotateElement turns the selected element one step clockwise in the
\* cycle N, E, S, W, N and leaves every other bench and steps element as it
\* was; four rotations of an element give it its original rotation back,
\* and all its fields when it is not auto-sized.
C26_RotationCycle ==
  /\ [][rotateElement =>
          IF selectedElement.type = "bench"
          THEN OnlyTurned(benches, benches', selectedElement.id) /\ steps' = steps
          ELSE OnlyTurned(steps, steps', selectedElement.id) /\ benches' = benches]_vars
  /\ [](\A e \in Range(benches) \cup Range(steps) :
          /\ FourTurns(e, vessels[VizIndex]).rotation = e.rotation
          /\ ~IsAutoSized(e) => FourTurns(e, vessels[VizIndex]) = e)

\* the bench was turned twice and faces S, the steps beside it still face N
C26_Witness ==
  /\ \E b \in Range(benches) : b.rotation = "S"
  /\ Len(steps) > 0
  /\ \A e \in Range(steps) : e.rotation = "N"

(* --------------------------- quick-add pre-fill ------------------------ *)
\* the bather count openQuickAdd sets for a vessel type
PrefilledBathers(t) == IF t = "Cold Plunge" THEN R(2) ELSE R(6)

\* the dialog shows the type, the bather count of the type and the
\* dimensions autoSizeDimensions gives for that count
Prefilled(q, t) ==
  /\ q.show /\ q.type = t /\ q.bathers = PrefilledBathers(t)
  /\ q.length = autoSizeDimensions(PrefilledBathers(t)).length
  /\ q.width = autoSizeDimensions(PrefilledBathers(t)).width

\* C27: every time the closed quick-add dialog is opened through
\* openQuickAdd, once the effects have run its length and width are
\* autoSizeDimensions of the pre-filled bather count (2 for a Cold Plunge, 6
\* for a Hot Tub), whatever was entered while the dialog was open before.
C27_QuickAddPrefill ==
  [][\A t \in VesselTypes :
       (~quickAdd.show /\ openQuickAdd(t)) => Prefilled(quickAdd', t)]_vars

\* the same, for the openings that change the bather count
C27_PrefillWhenBathersChange ==
  [][\A t \in VesselTypes :
       (~quickAdd.show /\ quickAdd.bathers # PrefilledBathers(t) /\ openQuickAdd(t))
         => Prefilled(quickAdd', t)]_vars

(* -------------------------- vessel list operations --------------------- *)
VesselIds(vs) == {vs[i].id : i \in 1..Len(vs)}

\* after is before without its k-th vessel, the others in their order
RemovedOnly(before, after, k) ==
  /\ Len(after) = Len(before) - 1
  /\ \A i \in 1..Len(after) : after[i] = before[IF i < k THEN i ELSE i + 1]

\* after is before with the fields of patch written into its k-th vessel
PatchedOnly(before, after, k, patch) ==
  /\ Len(after) = Len(before)
  /\ \A i \in 1..Len(before) : i # k => after[i] = before[i]
  /\ DOMAIN after[k] = DOMAIN before[k]
  /\ \A f \in DOMAIN before[k] :
       after[k][f] = IF f \in DOMAIN patch THEN patch[f] ELSE before[k][f]

\* after is before with one more vessel at the end, whose id is new
AppendedOnly(before, after) ==
  /\ Len(after) = Len(before) + 1
  /\ \A i \in 1..Len(before) : after[i] = before[i]
  /\ after[Len(after)].id \notin VesselIds(before)

\* C28: removeVessel(id) takes exactly the vessel with that id out of the
\* list, updateVessel(id, patch) changes only the patched fields of that
\* vessel, duplicateVessel(id) only appends one vessel with an id no vessel
\* has; every other vessel keeps all its fields and the vessels that remain
\* keep their order.
C28_ListOperationsTouchTarget ==
  [][\A k \in 1..Len(vessels) :
       /\ removeVessel(vessels[k].id) => RemovedOnly(vessels, vessels', k)
       /\ \A p \in ListPatches(vessels[k]) :
            updateVessel(vessels[k].id, p) => PatchedOnly(vessels, vessels', k, p)
       /\ duplicateVessel(vessels[k].id, freshVesselId)
            => AppendedOnly(vessels, vessels')]_vars

\* CP-1 was duplicated and then removed, and the length of the Hot Tub was
\* edited: the Hot Tub is first, the copy CP-2 second with the length of CP-1
C28_Witness ==
  /\ Len(vessels) = 2
  /\ vessels[1].type = "Hot Tub" /\ vessels[1].length_ft = R(4)
  /\ vessels[2].name = <<"CP", 2>> /\ vessels[2].length_ft = R(2)

====
